---- MODULE Spec2Model ----
(***************************************************************************)
(* Model of ai_watch: the validated single-file JSON document store        *)
(* (ai_watch/storage.py, class FileDatabase) and its payload validation    *)
(* (ai_watch/validation.py).                                               *)
(*                                                                         *)
(* A record (a Python dict) is a function from key strings to values; a    *)
(* key that the dict lacks is outside the function's DOMAIN.  Python's     *)
(* None / JSON null is the value NULL.  A collection is a sequence of      *)
(* records, the document a function from the four collection keys to       *)
(* collections.                                                            *)
(***************************************************************************)
EXTENDS Integers, Sequences, FiniteSets, TLC

VARIABLES
    file,   \* the backing file self.path: [exists, chunks]
    tmp,    \* the NamedTemporaryFile of the save in progress: [exists, chunks]
    buf,    \* chunks json.dump has written that are not in the temporary file yet
    last,   \* the call that has just returned: its arguments, status and message
    pc,     \* where the caller is: idle, inside _write, or holding a result
    mem,    \* the in-memory document handed to the save in progress
    prev,   \* content of the backing file when the call began
    seen,   \* what outside readers found when they opened self.path during the call
    crashed, \* the process died
    lock,   \* per FileDatabase instance, the thread that holds self._lock (or NULL)
    thr,    \* per thread, the public call it is running and where it is in it
    tmps    \* the temporary files of the running saves, by file name

vars == <<file, tmp, buf, last, pc, mem, prev, seen, crashed, lock, thr, tmps>>

\* The state of one caller at a time, and the state of the threads.
seqVars == <<tmp, buf, last, pc, mem, prev, seen, crashed>>
thrVars == <<lock, thr, tmps>>

-----------------------------------------------------------------------------
(* Values *)

NULL == "null"

ServiceIds == {"s1", "s2"}
AccountIds == {"a1", "a2"}
BudgetIds == {"b1", "b2"}
RecommendationIds == {"r1", "r2"}

\* Cap on the number of records in the whole document (model bound).
MaxRecords == 5

ALLOWED_CATEGORIES == {"coding", "art", "music", "general"}
ALLOWED_STATUSES == {"active", "paused", "cancelled"}

\* A default document with the two required collections only.
DEFAULT_DB_required_only == [services |-> <<>>, accounts |-> <<>>]

DEFAULT_DB ==
    [services |-> <<>>, accounts |-> <<>>, usage_budgets |-> <<>>, recommendations |-> <<>>]

\* Order in which the top-level keys are written: the four collections, and
\* "archive" for a key of no collection that a file of another origin holds.
KeyOrder == <<"services", "accounts", "usage_budgets", "recommendations", "archive">>

-----------------------------------------------------------------------------
(* dict and list helpers *)

\* dict.get(key): the value, or None when the key is missing.
Get(d, k) == IF k \in DOMAIN d THEN d[k] ELSE NULL

\* Python truthiness of an id-like value: None and "" are falsy.
Truthy(v) == v # NULL /\ v # ""

\* dict.update(payload): payload's keys win, the other keys stay.
DictUpdate(d, p) ==
    [k \in (DOMAIN d) \cup (DOMAIN p) |-> IF k \in DOMAIN p THEN p[k] ELSE d[k]]

\* data with data[key] = value (assignment to an existing or new key).
SetKey(data, key, value) ==
    [k \in (DOMAIN data) \cup {key} |-> IF k = key THEN value ELSE data[k]]

\* any(item["id"] == id for item in items)
HasId(items, id) == \E i \in DOMAIN items : items[i]["id"] = id

\* Index of next((item for item in items if item["id"] == id), None); 0 for None.
FindIndex(items, id) ==
    IF HasId(items, id)
    THEN CHOOSE i \in DOMAIN items :
            /\ items[i]["id"] = id
            /\ \A j \in DOMAIN items : items[j]["id"] = id => i <= j
    ELSE 0

-----------------------------------------------------------------------------
(* Spelling of the keys, for the substring test on key names *)

Spelling ==
    [id |-> <<"i", "d">>,
     name |-> <<"n", "a", "m", "e">>,
     category |-> <<"c", "a", "t">>,
     provider |-> <<"p", "r", "o", "v">>,
     website_url |-> <<"w", "e", "b">>,
     docs_url |-> <<"d", "o", "c", "s">>,
     billing_url |-> <<"b", "i", "l", "l">>,
     service_id |-> <<"s", "i", "d">>,
     account_id |-> <<"a", "i", "d">>,
     email |-> <<"e", "m", "a", "i", "l">>,
     plan_name |-> <<"p", "l", "a", "n">>,
     monthly_cost_usd |-> <<"c", "o", "s", "t">>,
     status |-> <<"s", "t", "a", "t">>,
     renewal_day |-> <<"r", "d", "a", "y">>,
     monthly_budget_usd |-> <<"m", "b", "u", "d">>,
     alert_threshold_percent |-> <<"a", "l", "e", "r", "t">>,
     current_month_spend_usd |-> <<"s", "p", "e", "n", "d">>,
     title |-> <<"t", "i", "t", "l", "e">>,
     body |-> <<"b", "o", "d", "y">>,
     priority |-> <<"p", "r", "i", "o">>,
     password_hint |-> <<"p", "a", "s", "s", "w", "o", "r", "d", "_", "h">>,
     Password |-> <<"P", "a", "s", "s", "w", "o", "r", "d">>]

\* A lower() that leaves every character as it is.
LowerChar_identity(c) == c

\* str.lower() on one character.
LowerChar(c) == IF c = "P" THEN "p" ELSE c

Lower(s) == [i \in DOMAIN s |-> LowerChar(s[i])]

\* needle in haystack (substring test).
Contains(haystack, needle) ==
    \E i \in 0 .. (Len(haystack) - Len(needle)) :
        \A j \in 1 .. Len(needle) : haystack[i + j] = needle[j]

PasswordWord == <<"p", "a", "s", "s", "w", "o", "r", "d">>

-----------------------------------------------------------------------------------------------------------------------------------------------------
(* validation.py: each validate_* operator gives the message of the        *)
(* ValidationError the function raises, or OK when it returns.             *)

OK == ""

\* The keys with "password" in key.lower().
PasswordKeys == {key \in DOMAIN Spelling : Contains(Lower(Spelling[key]), PasswordWord)}

\* TRUE when the function returns, FALSE when it raises.
_reject_password_fields(payload) ==
    \A key \in DOMAIN payload : key \notin PasswordKeys

\* TRUE when the function returns, FALSE when it raises.
_require(payload, field) == field \in DOMAIN payload

\* value is None or isinstance(value, str): every value of the model that
\* is not None is a string.
UrlOk(payload, url_field) ==
    Get(payload, url_field) = NULL \/ Get(payload, url_field) \in STRING

validate_service_payload(payload) ==
    IF ~_reject_password_fields(payload) THEN "Password fields are not allowed."
    ELSE IF \E field \in {"id", "name", "category", "provider", "website_url"} :
               ~_require(payload, field)
    THEN "Missing required field."
    ELSE IF payload["category"] \notin ALLOWED_CATEGORIES THEN "Invalid category."
    ELSE IF \E url_field \in {"website_url", "docs_url", "billing_url"} :
               ~UrlOk(payload, url_field)
    THEN "Field must be a string or null."
    ELSE OK

\* "@" in email
HasAt(email) == \E i \in DOMAIN email : email[i] = "@"


\* validate_account_payload without the lookup of service_id.
validate_account_payload_no_lookup(payload, services) ==
    IF ~_reject_password_fields(payload) THEN "Password fields are not allowed."
    ELSE IF \E field \in {"id", "service_id", "email", "plan_name",
                          "monthly_cost_usd", "status"} : ~_require(payload, field)
    THEN "Missing required field."
    ELSE IF ~HasAt(payload["email"]) THEN "Field 'email' must look like an email address."
    ELSE IF payload["status"] \notin ALLOWED_STATUSES THEN "Invalid status."
    ELSE IF payload["monthly_cost_usd"] < 0
    THEN "Field 'monthly_cost_usd' must be a non-negative number."
    ELSE IF "renewal_day" \in DOMAIN payload
            /\ (payload["renewal_day"] < 1 \/ payload["renewal_day"] > 31)
    THEN "Field 'renewal_day' must be an integer between 1 and 31."
    ELSE OK

validate_account_payload(payload, services) ==
    IF ~_reject_password_fields(payload) THEN "Password fields are not allowed."
    ELSE IF \E field \in {"id", "service_id", "email", "plan_name",
                          "monthly_cost_usd", "status"} : ~_require(payload, field)
    THEN "Missing required field."
    ELSE IF ~HasAt(payload["email"]) THEN "Field 'email' must look like an email address."
    ELSE IF payload["status"] \notin ALLOWED_STATUSES THEN "Invalid status."
    ELSE IF ~HasId(services, payload["service_id"]) THEN "Unknown service_id."
    ELSE IF payload["monthly_cost_usd"] < 0
    THEN "Field 'monthly_cost_usd' must be a non-negative number."
    \* renewal_day is a number whenever the payload has the key (None is the
    \* missing key here).
    ELSE IF "renewal_day" \in DOMAIN payload
            /\ (payload["renewal_day"] < 1 \/ payload["renewal_day"] > 31)
    THEN "Field 'renewal_day' must be an integer between 1 and 31."
    ELSE OK

validate_budget_payload(payload, accounts) ==
    IF ~_reject_password_fields(payload) THEN "Password fields are not allowed."
    ELSE IF \E field \in {"id", "account_id", "monthly_budget_usd",
                          "alert_threshold_percent", "current_month_spend_usd"} :
               ~_require(payload, field)
    THEN "Missing required field."
    ELSE IF ~HasId(accounts, payload["account_id"]) THEN "Unknown account_id."
    ELSE IF \E number_field \in {"monthly_budget_usd", "alert_threshold_percent",
                                 "current_month_spend_usd"} :
               payload[number_field] < 0
    THEN "Field must be a non-negative number."
    ELSE IF payload["alert_threshold_percent"] > 100
    THEN "Field 'alert_threshold_percent' cannot be greater than 100."
    ELSE OK

\* validate_recommendation_payload without the test that a target is set.
validate_recommendation_payload_no_target(payload, accounts, services) ==
    LET account_id == Get(payload, "account_id")
        service_id == Get(payload, "service_id")
    IN IF ~_reject_password_fields(payload) THEN "Password fields are not allowed."
       ELSE IF \E field \in {"id", "title", "body", "priority"} : ~_require(payload, field)
       THEN "Missing required field."
       ELSE IF Truthy(account_id) /\ ~HasId(accounts, account_id) THEN "Unknown account_id."
       ELSE IF Truthy(service_id) /\ ~HasId(services, service_id) THEN "Unknown service_id."
       ELSE IF payload["priority"] < 1 \/ payload["priority"] > 5
       THEN "Field 'priority' must be an integer between 1 and 5."
       ELSE OK

validate_recommendation_payload(payload, accounts, services) ==
    LET account_id == Get(payload, "account_id")
        service_id == Get(payload, "service_id")
    IN IF ~_reject_password_fields(payload) THEN "Password fields are not allowed."
       ELSE IF \E field \in {"id", "title", "body", "priority"} : ~_require(payload, field)
       THEN "Missing required field."
       ELSE IF ~Truthy(account_id) /\ ~Truthy(service_id)
       THEN "Recommendation requires either 'account_id' or 'service_id'."
       ELSE IF Truthy(account_id) /\ ~HasId(accounts, account_id) THEN "Unknown account_id."
       ELSE IF Truthy(service_id) /\ ~HasId(services, service_id) THEN "Unknown service_id."
       ELSE IF payload["priority"] < 1 \/ payload["priority"] > 5
       THEN "Field 'priority' must be an integer between 1 and 5."
       ELSE OK

-----
(* The file: json.dump writes the document as a run of chunks, json.load   *)
(* parses a complete run back.                                             *)

OpenChunk == <<"{", <<>>>>
CloseChunk == <<"}", <<>>>>

NoFile == [exists |-> FALSE, chunks |-> <<>>]

\* A dump that leaves out the keys whose list is empty.
Serialize_skips_empty(data) ==
    LET keys == SelectSeq(KeyOrder, LAMBDA k : k \in DOMAIN data /\ data[k] # <<>>)
    IN <<OpenChunk>> \o [i \in 1 .. Len(keys) |-> <<keys[i], data[keys[i]]>>]
                     \o <<CloseChunk>>
\* json.dump(data, tmp, indent=2): the chunks written, in order.
Serialize(data) ==
    LET keys == SelectSeq(KeyOrder, LAMBDA k : k \in DOMAIN data)
    IN <<OpenChunk>> \o [i \in 1 .. Len(keys) |-> <<keys[i], data[keys[i]]>>]
                     \o <<CloseChunk>>

\* Whether json.load accepts the text: a partial text is no JSON document.
IsComplete(chunks) ==
    /\ Len(chunks) >= 2
    /\ chunks[1] = OpenChunk
    /\ chunks[Len(chunks)] = CloseChunk
    /\ \A i \in 2 .. (Len(chunks) - 1) : chunks[i][1] \notin {"{", "}"}

\* json.load(handle) of a complete text.
Parse(chunks) ==
    LET body == 2 .. (Len(chunks) - 1)
    IN [k \in {chunks[i][1] : i \in body} |->
            chunks[CHOOSE i \in body : chunks[i][1] = k][2]]

\* An exception of that class with that message.
Failure(kind, msg) == [status |-> kind, msg |-> msg]

Invalid(msg) == Failure("ValidationError", msg)

\* FileDatabase._read on the content f of self.path.
_read(f) ==
    IF ~f.exists THEN Failure("FileNotFoundError", "No such file or directory.")
    ELSE IF ~IsComplete(f.chunks) THEN Failure("JSONDecodeError", "Expecting value.")
    ELSE LET data == Parse(f.chunks)
         IN IF "services" \notin DOMAIN data \/ "accounts" \notin DOMAIN data
            THEN Invalid("Invalid database format.")
            ELSE [status |-> "ok", msg |-> OK,
                  data |-> [k \in (DOMAIN data) \cup {"usage_budgets", "recommendations"} |->
                               IF k \in DOMAIN data THEN data[k] ELSE <<>>]]

\* The content of self.path after a finished FileDatabase._write(data).
Written(data) == [exists |-> TRUE, chunks |-> Serialize(data)]

\* An operation that ran to its _write: the document it hands to _write
\* (the "data" field is there exactly when the operation calls _write).
Success(data) == [status |-> "ok", msg |-> OK, data |-> data]

\* A constructor that writes DEFAULT_DB whether or not the file is there.
_ensure_exists_always_writes(f) == Success(DEFAULT_DB)

\* FileDatabase.__init__ -> _ensure_exists on the content f of self.path:
\* the file is written only when it is absent.
_ensure_exists(f) ==
    IF ~f.exists THEN Success(DEFAULT_DB) ELSE [status |-> "ok", msg |-> OK]
\* A create that puts payload in the place of the records of the collection.
Created_alone(data, key, payload) ==
    [status |-> "ok", msg |-> OK, data |-> SetKey(data, key, <<payload>>), value |-> payload]

\* data[key].append(payload); self._write(data); return payload
Created(data, key, payload) ==
    [status |-> "ok", msg |-> OK, data |-> SetKey(data, key, Append(data[key], payload)),
     value |-> payload]

\* items with the first record of that id replaced by payload.
UpdateAt_replaces(items, id, payload) ==
    [i \in DOMAIN items |-> IF i = FindIndex(items, id) THEN payload ELSE items[i]]

\* items with the first record of that id merged with payload (dict.update
\* on the record found by next(...)).
UpdateAt(items, id, payload) ==
    [i \in DOMAIN items |->
        IF i = FindIndex(items, id) THEN DictUpdate(items[i], payload) ELSE items[i]]

\* record.update(payload); self._write(data); return record
Updated(data, key, id, payload) ==
    [status |-> "ok", msg |-> OK,
     data |-> SetKey(data, key, UpdateAt(data[key], id, payload)),
     value |-> UpdateAt(data[key], id, payload)[FindIndex(data[key], id)]]

-----------------------------------------------------------------------------
(* storage.py: the mutating operations.  rd is what self._read() gives     *)
(* (or the error it raises); the result is the error raised, or the        *)
(* document passed to self._write.                                         *)

create_service(rd, payload) ==
    IF validate_service_payload(payload) # OK
    THEN Invalid(validate_service_payload(payload))
    ELSE IF rd.status # "ok" THEN rd
    ELSE IF HasId(rd.data["services"], payload["id"]) THEN Invalid("Service already exists.")
    ELSE Created(rd.data, "services", payload)

update_service(rd, service_id, payload) ==
    IF validate_service_payload(payload) # OK
    THEN Invalid(validate_service_payload(payload))
    ELSE IF payload["id"] # service_id
    THEN Invalid("Service ID in path and payload must match.")
    ELSE IF rd.status # "ok" THEN rd
    ELSE IF ~HasId(rd.data["services"], service_id) THEN Invalid("Service was not found.")
    ELSE Updated(rd.data, "services", service_id, payload)


\* delete_service without the check for accounts that use the service.
delete_service_unguarded(rd, service_id) ==
    IF rd.status # "ok" THEN rd
    ELSE LET kept == SelectSeq(rd.data["services"], LAMBDA svc : svc["id"] # service_id)
         IN IF Len(kept) = Len(rd.data["services"]) THEN Invalid("Service was not found.")
            ELSE Success(SetKey(rd.data, "services", kept))

delete_service(rd, service_id) ==
    IF rd.status # "ok" THEN rd
    ELSE IF \E i \in DOMAIN rd.data["accounts"] :
                rd.data["accounts"][i]["service_id"] = service_id
    THEN Invalid("Cannot delete a service used by an account.")
    ELSE LET kept == SelectSeq(rd.data["services"], LAMBDA svc : svc["id"] # service_id)
         IN IF Len(kept) = Len(rd.data["services"]) THEN Invalid("Service was not found.")
            ELSE Success(SetKey(rd.data, "services", kept))

create_account(rd, payload) ==
    IF rd.status # "ok" THEN rd
    ELSE IF validate_account_payload(payload, rd.data["services"]) # OK
    THEN Invalid(validate_account_payload(payload, rd.data["services"]))
    ELSE IF HasId(rd.data["accounts"], payload["id"]) THEN Invalid("Account already exists.")
    ELSE Created(rd.data, "accounts", payload)

\* update_account without the comparison of the two ids.
update_account_no_id_match(rd, account_id, payload) ==
    IF rd.status # "ok" THEN rd
    ELSE IF validate_account_payload(payload, rd.data["services"]) # OK
    THEN Invalid(validate_account_payload(payload, rd.data["services"]))
    ELSE IF ~HasId(rd.data["accounts"], account_id) THEN Invalid("Account was not found.")
    ELSE Updated(rd.data, "accounts", account_id, payload)

update_account(rd, account_id, payload) ==
    IF rd.status # "ok" THEN rd
    ELSE IF validate_account_payload(payload, rd.data["services"]) # OK
    THEN Invalid(validate_account_payload(payload, rd.data["services"]))
    ELSE IF payload["id"] # account_id
    THEN Invalid("Account ID in path and payload must match.")
    ELSE IF ~HasId(rd.data["accounts"], account_id) THEN Invalid("Account was not found.")
    ELSE Updated(rd.data, "accounts", account_id, payload)


\* delete_account that leaves the recommendations alone.
delete_account_keeps_recommendations(rd, account_id) ==
    IF rd.status # "ok" THEN rd
    ELSE LET kept == SelectSeq(rd.data["accounts"], LAMBDA acc : acc["id"] # account_id)
         IN IF Len(kept) = Len(rd.data["accounts"]) THEN Invalid("Account was not found.")
            ELSE Success(
                   [k \in DOMAIN rd.data |->
                      IF k = "accounts" THEN kept
                      ELSE IF k = "usage_budgets"
                      THEN SelectSeq(rd.data["usage_budgets"],
                                     LAMBDA budget : budget["account_id"] # account_id)
                      ELSE rd.data[k]])

delete_account(rd, account_id) ==
    IF rd.status # "ok" THEN rd
    ELSE LET kept == SelectSeq(rd.data["accounts"], LAMBDA acc : acc["id"] # account_id)
         IN IF Len(kept) = Len(rd.data["accounts"]) THEN Invalid("Account was not found.")
            ELSE Success(
                   [k \in DOMAIN rd.data |->
                      IF k = "accounts" THEN kept
                      ELSE IF k = "usage_budgets"
                      THEN SelectSeq(rd.data["usage_budgets"],
                                     LAMBDA budget : budget["account_id"] # account_id)
                      ELSE IF k = "recommendations"
                      THEN SelectSeq(rd.data["recommendations"],
                                     LAMBDA rec : Get(rec, "account_id") # account_id)
                      ELSE rd.data[k]])


\* create_budget without the check of the budget id.
create_budget_no_id_check(rd, payload) ==
    IF rd.status # "ok" THEN rd
    ELSE IF validate_budget_payload(payload, rd.data["accounts"]) # OK
    THEN Invalid(validate_budget_payload(payload, rd.data["accounts"]))
    ELSE IF \E i \in DOMAIN rd.data["usage_budgets"] :
                rd.data["usage_budgets"][i]["account_id"] = payload["account_id"]
    THEN Invalid("Account already has a budget.")
    ELSE Created(rd.data, "usage_budgets", payload)

create_budget(rd, payload) ==
    IF rd.status # "ok" THEN rd
    ELSE IF validate_budget_payload(payload, rd.data["accounts"]) # OK
    THEN Invalid(validate_budget_payload(payload, rd.data["accounts"]))
    ELSE IF HasId(rd.data["usage_budgets"], payload["id"])
    THEN Invalid("Budget already exists.")
    ELSE IF \E i \in DOMAIN rd.data["usage_budgets"] :
                rd.data["usage_budgets"][i]["account_id"] = payload["account_id"]
    THEN Invalid("Account already has a budget.")
    ELSE Created(rd.data, "usage_budgets", payload)


\* update_budget that merges and writes before it looks at the other budgets.
update_budget_writes_first(rd, budget_id, payload) ==
    IF rd.status # "ok" THEN rd
    ELSE IF validate_budget_payload(payload, rd.data["accounts"]) # OK
    THEN Invalid(validate_budget_payload(payload, rd.data["accounts"]))
    ELSE IF payload["id"] # budget_id
    THEN Invalid("Budget ID in path and payload must match.")
    ELSE IF ~HasId(rd.data["usage_budgets"], budget_id)
    THEN Invalid("Budget was not found.")
    ELSE IF \E i \in DOMAIN rd.data["usage_budgets"] :
                /\ rd.data["usage_budgets"][i]["id"] # budget_id
                /\ rd.data["usage_budgets"][i]["account_id"] = payload["account_id"]
    THEN [status |-> "ValidationError", msg |-> "Account already has a budget.",
          data |-> SetKey(rd.data, "usage_budgets",
                          UpdateAt(rd.data["usage_budgets"], budget_id, payload))]
    ELSE Updated(rd.data, "usage_budgets", budget_id, payload)

\* update_budget without the loop over the other budgets.
update_budget_no_owner_check(rd, budget_id, payload) ==
    IF rd.status # "ok" THEN rd
    ELSE IF validate_budget_payload(payload, rd.data["accounts"]) # OK
    THEN Invalid(validate_budget_payload(payload, rd.data["accounts"]))
    ELSE IF payload["id"] # budget_id
    THEN Invalid("Budget ID in path and payload must match.")
    ELSE IF ~HasId(rd.data["usage_budgets"], budget_id)
    THEN Invalid("Budget was not found.")
    ELSE Updated(rd.data, "usage_budgets", budget_id, payload)

update_budget(rd, budget_id, payload) ==
    IF rd.status # "ok" THEN rd
    ELSE IF validate_budget_payload(payload, rd.data["accounts"]) # OK
    THEN Invalid(validate_budget_payload(payload, rd.data["accounts"]))
    ELSE IF payload["id"] # budget_id
    THEN Invalid("Budget ID in path and payload must match.")
    ELSE IF ~HasId(rd.data["usage_budgets"], budget_id)
    THEN Invalid("Budget was not found.")
    ELSE IF \E i \in DOMAIN rd.data["usage_budgets"] :
                /\ rd.data["usage_budgets"][i]["id"] # budget_id
                /\ rd.data["usage_budgets"][i]["account_id"] = payload["account_id"]
    THEN Invalid("Account already has a budget.")
    ELSE Updated(rd.data, "usage_budgets", budget_id, payload)


\* delete_budget that saves and returns when no budget has the id.
delete_budget_ignores_missing(rd, budget_id) ==
    IF rd.status # "ok" THEN rd
    ELSE Success(SetKey(rd.data, "usage_budgets",
                        SelectSeq(rd.data["usage_budgets"],
                                  LAMBDA budget : budget["id"] # budget_id)))

delete_budget(rd, budget_id) ==
    IF rd.status # "ok" THEN rd
    ELSE LET kept == SelectSeq(rd.data["usage_budgets"],
                               LAMBDA budget : budget["id"] # budget_id)
         IN IF Len(kept) = Len(rd.data["usage_budgets"])
            THEN Invalid("Budget was not found.")
            ELSE Success(SetKey(rd.data, "usage_budgets", kept))


\* create_recommendation without the check of the recommendation id.
create_recommendation_no_id_check(rd, payload) ==
    IF rd.status # "ok" THEN rd
    ELSE IF validate_recommendation_payload(payload, rd.data["accounts"],
                                            rd.data["services"]) # OK
    THEN Invalid(validate_recommendation_payload(payload, rd.data["accounts"],
                                                 rd.data["services"]))
    ELSE Created(rd.data, "recommendations", payload)

create_recommendation(rd, payload) ==
    IF rd.status # "ok" THEN rd
    ELSE IF validate_recommendation_payload(payload, rd.data["accounts"],
                                            rd.data["services"]) # OK
    THEN Invalid(validate_recommendation_payload(payload, rd.data["accounts"],
                                                 rd.data["services"]))
    ELSE IF HasId(rd.data["recommendations"], payload["id"])
    THEN Invalid("Recommendation already exists.")
    ELSE Created(rd.data, "recommendations", payload)

update_recommendation(rd, recommendation_id, payload) ==
    IF rd.status # "ok" THEN rd
    ELSE IF validate_recommendation_payload(payload, rd.data["accounts"],
                                            rd.data["services"]) # OK
    THEN Invalid(validate_recommendation_payload(payload, rd.data["accounts"],
                                                 rd.data["services"]))
    ELSE IF payload["id"] # recommendation_id
    THEN Invalid("Recommendation ID in path and payload must match.")
    ELSE IF ~HasId(rd.data["recommendations"], recommendation_id)
    THEN Invalid("Recommendation was not found.")
    ELSE Updated(rd.data, "recommendations", recommendation_id, payload)

delete_recommendation(rd, recommendation_id) ==
    IF rd.status # "ok" THEN rd
    ELSE LET kept == SelectSeq(rd.data["recommendations"],
                               LAMBDA rec : rec["id"] # recommendation_id)
         IN IF Len(kept) = Len(rd.data["recommendations"])
            THEN Invalid("Recommendation was not found.")
            ELSE Success(SetKey(rd.data, "recommendations", kept))

-----------------------------------------------------------------------------
(* storage.py: the read-only operations.  The result is the error raised   *)
(* by self._read(), or the value returned.                                 *)

\* A public method that returns: the value it returns.
Value(v) == [status |-> "ok", msg |-> OK, value |-> v]

\* The None a lookup returns in place of a record: it has no keys.
NoRecord == [k \in {} |-> NULL]

\* next((item for item in items if item["id"] == id), None)
FirstWithId(items, id) ==
    IF HasId(items, id) THEN items[FindIndex(items, id)] ELSE NoRecord

get_service(rd, service_id) ==
    IF rd.status # "ok" THEN rd
    ELSE Value(FirstWithId(rd.data["services"], service_id))

get_account(rd, account_id) ==
    IF rd.status # "ok" THEN rd
    ELSE Value(FirstWithId(rd.data["accounts"], account_id))

get_budget(rd, budget_id) ==
    IF rd.status # "ok" THEN rd
    ELSE Value(FirstWithId(rd.data["usage_budgets"], budget_id))

\* get_recommendation that raises when no recommendation has the id.
get_recommendation_raises(rd, recommendation_id) ==
    IF rd.status # "ok" THEN rd
    ELSE IF ~HasId(rd.data["recommendations"], recommendation_id)
    THEN Invalid("Recommendation was not found.")
    ELSE Value(FirstWithId(rd.data["recommendations"], recommendation_id))

get_recommendation(rd, recommendation_id) ==
    IF rd.status # "ok" THEN rd
    ELSE Value(FirstWithId(rd.data["recommendations"], recommendation_id))

\* Insertion of rec in front of the records of the same priority.
InsertBeforeEqual(items, rec) ==
    LET n == Cardinality({i \in DOMAIN items : items[i]["priority"] < rec["priority"]})
    IN SubSeq(items, 1, n) \o <<rec>> \o SubSeq(items, n + 1, Len(items))

\* One step of the stable sort: rec, which came after all of items in the
\* input, goes behind the records whose priority is not greater than its own.
InsertStable(items, rec) ==
    LET n == Cardinality({i \in DOMAIN items : items[i]["priority"] <= rec["priority"]})
    IN SubSeq(items, 1, n) \o <<rec>> \o SubSeq(items, n + 1, Len(items))

\* sorted(items, key=lambda rec: rec["priority"]): a new list, stably sorted.
RECURSIVE sorted_by_priority(_)
sorted_by_priority(items) ==
    IF items = <<>> THEN <<>>
    ELSE InsertStable(sorted_by_priority(SubSeq(items, 1, Len(items) - 1)),
                      items[Len(items)])

list_recommendations(rd) ==
    IF rd.status # "ok" THEN rd
    ELSE Value(sorted_by_priority(rd.data["recommendations"]))

-----------------------------------------------------------------------------
(* storage.py: dashboard_summary.  Amounts of money are counted in         *)
(* thousandths of a dollar (17000 is 17.0), alert_threshold_percent in     *)
(* percent, percent_used in hundredths of a percent.                       *)

\* num / den rounded to the nearest integer, a tie to the even one.
RoundHalfEven(num, den) ==
    LET q == num \div den
        twice == 2 * (num % den)
    IN IF twice > den \/ (twice = den /\ q % 2 = 1) THEN q + 1 ELSE q

\* round(amount, 2): to whole hundredths.
Round2(amount) == 10 * RoundHalfEven(amount, 10)

\* {item[key]: item for item in items}.get(v, {}): the last item wins.
LookupLast(items, key, v) ==
    IF \E i \in DOMAIN items : items[i][key] = v
    THEN items[CHOOSE i \in DOMAIN items :
                  /\ items[i][key] = v
                  /\ \A j \in DOMAIN items : items[j][key] = v => j <= i]
    ELSE NoRecord

\* Every account, whatever its status.
ActiveAccounts_all(data) == data["accounts"]

\* [acc for acc in data["accounts"] if acc["status"] == "active"]
ActiveAccounts(data) ==
    SelectSeq(data["accounts"], LAMBDA acc : acc["status"] = "active")

\* sum(acc["monthly_cost_usd"] for acc in accounts)
RECURSIVE SumCost(_)
SumCost(accounts) ==
    IF accounts = <<>> THEN 0
    ELSE accounts[1]["monthly_cost_usd"] + SumCost(Tail(accounts))

\* A lookup that finds no service: every account counts as "general".
CategoryOf_general(data, account) == "general"
\* service_by_id.get(account["service_id"], {}).get("category", "general")
CategoryOf(data, account) ==
    LET svc == LookupLast(data["services"], "id", account["service_id"])
    IN IF "category" \in DOMAIN svc THEN svc["category"] ELSE "general"

\* round((current_month_spend_usd / monthly_budget_usd) * 100, 2)
PercentUsed(budget) ==
    RoundHalfEven(budget["current_month_spend_usd"] * 10000, budget["monthly_budget_usd"])

\* The alert of one account when only a percentage above the threshold alerts.
AlertOf_strict(data, account) ==
    LET budget == LookupLast(data["usage_budgets"], "account_id", account["id"])
    IN IF /\ DOMAIN budget # {}
          /\ budget["monthly_budget_usd"] > 0
          /\ PercentUsed(budget) > budget["alert_threshold_percent"] * 100
       THEN <<[account_id |-> account["id"], email |-> account["email"],
               percent_used |-> PercentUsed(budget)]>>
       ELSE <<>>
\* The alert of one account: a list with the alert, or the empty list.
AlertOf(data, account) ==
    LET budget == LookupLast(data["usage_budgets"], "account_id", account["id"])
    IN IF /\ DOMAIN budget # {}
          /\ budget["monthly_budget_usd"] > 0
          /\ PercentUsed(budget) >= budget["alert_threshold_percent"] * 100
       THEN <<[account_id |-> account["id"], email |-> account["email"],
               percent_used |-> PercentUsed(budget)]>>
       ELSE <<>>

\* The loop over active_accounts that appends to budget_alerts.
RECURSIVE AlertsOf(_, _)
AlertsOf(data, accounts) ==
    IF accounts = <<>> THEN <<>>
    ELSE AlertOf(data, accounts[1]) \o AlertsOf(data, Tail(accounts))

dashboard_summary(rd) ==
    IF rd.status # "ok" THEN rd
    ELSE LET active_accounts == ActiveAccounts(rd.data)
         IN Value([total_monthly_spend_usd |-> Round2(SumCost(active_accounts)),
                   category_breakdown_usd |->
                      [category \in {"coding", "art", "music", "general"} |->
                          Round2(SumCost(SelectSeq(active_accounts,
                                    LAMBDA acc : CategoryOf(rd.data, acc) = category)))],
                   budget_alerts |-> AlertsOf(rd.data, active_accounts)])

-----------------------------------------------------------------------------
(* storage.py: get_config and the list operations *)

\* get_config that saves the document it has read.
get_config_persists(rd) ==
    IF rd.status # "ok" THEN rd
    ELSE [status |-> "ok", msg |-> OK, value |-> rd.data, data |-> rd.data]

get_config(rd) ==
    IF rd.status # "ok" THEN rd
    ELSE Value(rd.data)

list_services(rd, category) ==
    IF rd.status # "ok" THEN rd
    ELSE IF Truthy(category)
    THEN Value(SelectSeq(rd.data["services"], LAMBDA svc : svc["category"] = category))
    ELSE Value(rd.data["services"])

\* list_accounts that drops the status filter when a category is given.
list_accounts_one_filter(rd, category, status) ==
    IF rd.status # "ok" THEN rd
    ELSE IF Truthy(category)
    THEN Value(SelectSeq(rd.data["accounts"],
                 LAMBDA acc : Get(LookupLast(rd.data["services"], "id", acc["service_id"]),
                                  "category") = category))
    ELSE IF Truthy(status)
    THEN Value(SelectSeq(rd.data["accounts"], LAMBDA acc : acc["status"] = status))
    ELSE Value(rd.data["accounts"])

\* accounts filtered by status if status is given, then by the category of
\* {svc["id"]: svc}.get(acc["service_id"], {}).get("category") if category
\* is given.
list_accounts(rd, category, status) ==
    IF rd.status # "ok" THEN rd
    ELSE LET accounts ==
                 IF Truthy(status)
                 THEN SelectSeq(rd.data["accounts"], LAMBDA acc : acc["status"] = status)
                 ELSE rd.data["accounts"]
         IN IF Truthy(category)
            THEN Value(SelectSeq(accounts,
                         LAMBDA acc : Get(LookupLast(rd.data["services"], "id", acc["service_id"]),
                                          "category") = category))
            ELSE Value(accounts)

list_budgets(rd) ==
    IF rd.status # "ok" THEN rd
    ELSE Value(rd.data["usage_budgets"])

-----------------------------------------------------------------------------
(* replace_config, which routes.py and the tests call and storage.py does  *)
(* not define: modelled from the design document (4.2: "replaces the       *)
(* entire store contents in one atomic write ... no cross-validation       *)
(* beyond requiring the new payload to contain the required top-level      *)
(* keys").                                                                 *)

\* An import that writes the two required collections only.
replace_config_required_only(payload) ==
    IF "services" \notin DOMAIN payload \/ "accounts" \notin DOMAIN payload
    THEN Invalid("Invalid database format.")
    ELSE Success([key \in {"services", "accounts"} |-> payload[key]])

replace_config(payload) ==
    IF "services" \notin DOMAIN payload \/ "accounts" \notin DOMAIN payload
    THEN Invalid("Invalid database format.")
    ELSE Success(payload)

-----
(* The payloads the callers send *)

Without(d, key) == [k \in (DOMAIN d) \ {key} |-> d[k]]

GoodEmail == <<"o", "@", "x">>
BadEmail == <<"o", "x">>

ServicePayload(id, category) ==
    [id |-> id, name |-> "n", category |-> category, provider |-> "p", website_url |-> "w"]

AccountPayload(id, service_id, status) ==
    [id |-> id, service_id |-> service_id, email |-> GoodEmail, plan_name |-> "plus",
     monthly_cost_usd |-> 17000, status |-> status]

BudgetPayload(id, account_id) ==
    [id |-> id, account_id |-> account_id, monthly_budget_usd |-> 30000,
     alert_threshold_percent |-> 80, current_month_spend_usd |-> 26000]

\* "absent" stands for a payload without the key.
RecommendationPayload(id, account_id, service_id, priority) ==
    LET full == [id |-> id, account_id |-> account_id, service_id |-> service_id,
                 title |-> "t", body |-> "b", priority |-> priority]
        keys == (DOMAIN full) \ ({"account_id" : x \in {account_id} \cap {"absent"}}
                                 \cup {"service_id" : x \in {service_id} \cap {"absent"}})
    IN [k \in keys |-> full[k]]

ServiceCategories == {"coding"}
AccountStatuses == {"active"}

ValidServicePayloads ==
    {ServicePayload(id, c) : id \in ServiceIds, c \in ServiceCategories}

ServicePayloads ==
    ValidServicePayloads
    \cup {ServicePayload("s1", "bogus"),
          Without(ServicePayload("s1", "coding"), "website_url"),
          SetKey(ServicePayload("s1", "coding"), "password_hint", "x"),
          SetKey(ServicePayload("s1", "coding"), "Password", NULL)}

ValidAccountPayloads ==
    {AccountPayload(id, s, st) : id \in AccountIds, s \in ServiceIds, st \in AccountStatuses}

AccountPayloads ==
    ValidAccountPayloads
    \cup {AccountPayload("a1", "s1", "bogus"),
          SetKey(AccountPayload("a1", "s1", "active"), "email", BadEmail),
          SetKey(AccountPayload("a1", "s1", "active"), "monthly_cost_usd", -1),
          SetKey(AccountPayload("a1", "s1", "active"), "renewal_day", 32),
          Without(AccountPayload("a1", "s1", "active"), "plan_name"),
          SetKey(AccountPayload("a1", "s1", "active"), "Password", "x"),
          SetKey(AccountPayload("a1", "s1", "active"), "password_hint", NULL)}

ValidBudgetPayloads ==
    {BudgetPayload(id, a) : id \in BudgetIds, a \in AccountIds}

BudgetPayloads ==
    ValidBudgetPayloads
    \cup {SetKey(BudgetPayload("b1", "a1"), "alert_threshold_percent", 101),
          SetKey(BudgetPayload("b1", "a1"), "current_month_spend_usd", -1),
          Without(BudgetPayload("b1", "a1"), "monthly_budget_usd"),
          SetKey(BudgetPayload("b1", "a1"), "password_hint", "x"),
          SetKey(BudgetPayload("b1", "a1"), "Password", NULL)}

RecommendationAccountRefs == {NULL} \cup AccountIds
RecommendationServiceRefs == {"absent", "s1"}

RecommendationPayloads ==
    {RecommendationPayload(id, a, s, 1) :
        id \in RecommendationIds, a \in RecommendationAccountRefs,
        s \in RecommendationServiceRefs}
    \cup {RecommendationPayload("r1", "a1", "s1", 0),
          RecommendationPayload("r1", "a1", "s1", 6),
          Without(RecommendationPayload("r1", "a1", "s1", 1), "title"),
          SetKey(RecommendationPayload("r1", "a1", "s1", 1), "password_hint", "x"),
          SetKey(RecommendationPayload("r1", "a1", "s1", 1), "Password", NULL),
          RecommendationPayload("r1", "absent", "absent", 1),
          RecommendationPayload("r1", "", "absent", 1)}

-----------------------------------------------------------------------------------------------------------------------------------------------------
(* Sequential use: one public call at a time, each running to its end *)

\* The document in the backing file, and the one there when the last call began.
Doc == Parse(file.chunks)
PrevDoc == Parse(prev.chunks)

\* The number of records in the file; a collection the file lacks has none.
CountOf(key) == IF key \in DOMAIN Doc THEN Len(Doc[key]) ELSE 0

Records ==
    CountOf("services") + CountOf("accounts")
    + CountOf("usage_budgets") + CountOf("recommendations")

NoCall == [op |-> "none", status |-> "ok", msg |-> OK]

\* The threads that call the store, and the FileDatabase instances (each
\* with its own self._lock) that are open on the one backing file.
Threads == {"t1", "t2"}
Instances == {"db1", "db2"}

\* What a thread holds before it has read anything.
NoRead == Failure("NotRead", OK)

IdleThread == [pc |-> "idle", call |-> NoCall, rd |-> NoRead, r |-> NoRead, base |-> NoFile]

\* No thread is running a call: every lock is free, no temporary file exists.
ThreadsIdle ==
    /\ lock = [db \in Instances |-> NULL]
    /\ thr = [t \in Threads |-> IdleThread]
    /\ tmps = [name \in Threads |-> NoFile]

\* A public mutating call, from its first line to its return or raise: r is
\* the operation's result on the document read, call names the operation and
\* its arguments.
Finish(call, r) ==
    /\ pc = "idle"
    /\ ~crashed
    /\ file' = IF "data" \in DOMAIN r THEN Written(r.data) ELSE file
    /\ last' = [k \in (DOMAIN call) \cup ((DOMAIN r) \ {"data"}) |->
                  IF k \in DOMAIN r THEN r[k] ELSE call[k]]
    /\ prev' = file
    /\ pc' = "returned"
    /\ UNCHANGED <<tmp, buf, mem, seen, crashed>>
    /\ UNCHANGED thrVars

\* The caller takes the result (or the exception) of the call it made.
TakeResult ==
    /\ pc = "returned"
    /\ ~crashed
    /\ pc' = "idle"
    /\ last' = NoCall
    /\ prev' = NoFile
    /\ seen' = {}
    /\ UNCHANGED <<file, tmp, buf, mem, crashed>>
    /\ UNCHANGED thrVars

Call_create_service(payload) ==
    /\ pc = "idle"
    /\ Records < MaxRecords
    /\ Finish([op |-> "create_service", id |-> payload["id"], payload |-> payload],
              create_service(_read(file), payload))

Call_update_service(service_id, payload) ==
    Finish([op |-> "update_service", id |-> service_id, payload |-> payload],
           update_service(_read(file), service_id, payload))

Call_delete_service(service_id) ==
    Finish([op |-> "delete_service", id |-> service_id],
           delete_service(_read(file), service_id))

Call_create_account(payload) ==
    /\ pc = "idle"
    /\ Records < MaxRecords
    /\ Finish([op |-> "create_account", id |-> payload["id"], payload |-> payload],
              create_account(_read(file), payload))

Call_update_account(account_id, payload) ==
    Finish([op |-> "update_account", id |-> account_id, payload |-> payload],
           update_account(_read(file), account_id, payload))

Call_delete_account(account_id) ==
    Finish([op |-> "delete_account", id |-> account_id],
           delete_account(_read(file), account_id))

Call_create_budget(payload) ==
    /\ pc = "idle"
    /\ Records < MaxRecords
    /\ Finish([op |-> "create_budget", id |-> payload["id"], payload |-> payload],
              create_budget(_read(file), payload))

Call_update_budget(budget_id, payload) ==
    Finish([op |-> "update_budget", id |-> budget_id, payload |-> payload],
           update_budget(_read(file), budget_id, payload))

Call_delete_budget(budget_id) ==
    Finish([op |-> "delete_budget", id |-> budget_id],
           delete_budget(_read(file), budget_id))

Call_create_recommendation(payload) ==
    /\ pc = "idle"
    /\ Records < MaxRecords
    /\ Finish([op |-> "create_recommendation", id |-> payload["id"], payload |-> payload],
              create_recommendation(_read(file), payload))

Call_update_recommendation(recommendation_id, payload) ==
    Finish([op |-> "update_recommendation", id |-> recommendation_id, payload |-> payload],
           update_recommendation(_read(file), recommendation_id, payload))

Call_delete_recommendation(recommendation_id) ==
    Finish([op |-> "delete_recommendation", id |-> recommendation_id],
           delete_recommendation(_read(file), recommendation_id))

Call_get_service(service_id) ==
    Finish([op |-> "get_service", id |-> service_id],
           get_service(_read(file), service_id))

Call_get_account(account_id) ==
    Finish([op |-> "get_account", id |-> account_id],
           get_account(_read(file), account_id))

Call_get_budget(budget_id) ==
    Finish([op |-> "get_budget", id |-> budget_id],
           get_budget(_read(file), budget_id))

Call_get_recommendation(recommendation_id) ==
    Finish([op |-> "get_recommendation", id |-> recommendation_id],
           get_recommendation(_read(file), recommendation_id))

\* FileDatabase(path) on a path that does not exist yet: _ensure_exists has
\* written DEFAULT_DB.
Call_get_config ==
    Finish([op |-> "get_config"], get_config(_read(file)))

Call_list_services(category) ==
    Finish([op |-> "list_services", category |-> category],
           list_services(_read(file), category))

Call_list_accounts(category, status) ==
    Finish([op |-> "list_accounts", category |-> category, status_filter |-> status],
           list_accounts(_read(file), category, status))

Call_list_budgets ==
    Finish([op |-> "list_budgets"], list_budgets(_read(file)))

Init ==
    /\ file = Written(DEFAULT_DB)
    /\ tmp = NoFile
    /\ buf = <<>>
    /\ last = NoCall
    /\ pc = "idle"
    /\ mem = DEFAULT_DB
    /\ prev = NoFile
    /\ seen = {}
    /\ crashed = FALSE
    /\ ThreadsIdle

Next ==
    \/ \E payload \in ServicePayloads : Call_create_service(payload)
    \/ \E id \in ServiceIds, payload \in ServicePayloads : Call_update_service(id, payload)
    \/ \E id \in ServiceIds : Call_delete_service(id)
    \/ \E payload \in AccountPayloads : Call_create_account(payload)
    \/ \E id \in AccountIds, payload \in AccountPayloads : Call_update_account(id, payload)
    \/ \E id \in AccountIds : Call_delete_account(id)
    \/ \E payload \in BudgetPayloads : Call_create_budget(payload)
    \/ \E id \in BudgetIds, payload \in BudgetPayloads : Call_update_budget(id, payload)
    \/ \E id \in BudgetIds : Call_delete_budget(id)
    \/ \E payload \in RecommendationPayloads : Call_create_recommendation(payload)
    \/ \E id \in RecommendationIds, payload \in RecommendationPayloads :
          Call_update_recommendation(id, payload)
    \/ \E id \in RecommendationIds : Call_delete_recommendation(id)
    \/ \E id \in ServiceIds : Call_get_service(id)
    \/ \E id \in AccountIds : Call_get_account(id)
    \/ \E id \in BudgetIds : Call_get_budget(id)
    \/ \E id \in RecommendationIds : Call_get_recommendation(id)
    \/ TakeResult

Spec == Init /\ [][Next]_vars

-----------------------------------------------------------------------------
(* The save step by step (specification SpecWrite): FileDatabase._write    *)
(* from the creation of the temporary file to os.replace, a process that   *)
(* may die at any step, and readers outside the process.                   *)

InWrite == pc \in {"w_open", "w_dump", "w_fsync", "w_close", "w_replace", "w_done"}

BeforeReplace == pc \in {"w_open", "w_dump", "w_fsync", "w_close", "w_replace"}

\* Number of chunks json.dump has produced so far.
Dumped == Len(tmp.chunks) + Len(buf)

\* A public mutating call up to its self._write(data), or to its raise.
Start(call, r) ==
    /\ pc = "idle"
    /\ ~crashed
    /\ prev' = file
    /\ seen' = {}
    /\ last' = [k \in (DOMAIN call) \cup {"status", "msg"} |->
                  IF k = "status" THEN r.status ELSE IF k = "msg" THEN r.msg ELSE call[k]]
    /\ IF "data" \in DOMAIN r
       THEN mem' = r.data /\ pc' = "w_open"
       ELSE mem' = mem /\ pc' = "returned"
    /\ UNCHANGED <<file, tmp, buf, crashed>>
    /\ UNCHANGED thrVars

Start_create_service(payload) ==
    /\ pc = "idle"
    /\ Records < MaxRecords
    /\ Start([op |-> "create_service", id |-> payload["id"], payload |-> payload],
             create_service(_read(file), payload))

Start_delete_service(service_id) ==
    Start([op |-> "delete_service", id |-> service_id],
          delete_service(_read(file), service_id))

Start_create_account(payload) ==
    /\ pc = "idle"
    /\ Records < MaxRecords
    /\ Start([op |-> "create_account", id |-> payload["id"], payload |-> payload],
             create_account(_read(file), payload))

Start_delete_account(account_id) ==
    Start([op |-> "delete_account", id |-> account_id],
          delete_account(_read(file), account_id))

\* Chunks leave the process for the file system: they go to the temporary
\* file, never to self.path.
ToDisk_in_place(chunks) ==
    /\ file' = [exists |-> TRUE,
                chunks |-> IF file = prev THEN chunks ELSE file.chunks \o chunks]
    /\ tmp' = tmp

ToDisk(chunks) ==
    /\ tmp' = [tmp EXCEPT !.chunks = @ \o chunks]
    /\ file' = file

\* NamedTemporaryFile(mode="w", delete=False, dir=self.path.parent)
Write_open ==
    /\ pc = "w_open"
    /\ ~crashed
    /\ tmp' = [exists |-> TRUE, chunks |-> <<>>]
    /\ buf' = <<>>
    /\ pc' = "w_dump"
    /\ UNCHANGED <<file, last, mem, prev, seen, crashed>>
    /\ UNCHANGED thrVars

\* json.dump(data, tmp, indent=2): one more chunk written to the file object.
Write_dump ==
    /\ pc = "w_dump"
    /\ ~crashed
    /\ Dumped < Len(Serialize(mem))
    /\ buf' = Append(buf, Serialize(mem)[Dumped + 1])
    /\ UNCHANGED <<file, tmp, last, pc, mem, prev, seen, crashed>>
    /\ UNCHANGED thrVars

\* The file object's buffer is full and is written out during json.dump.
Write_spill ==
    /\ pc = "w_dump"
    /\ ~crashed
    /\ buf # <<>>
    /\ ToDisk(buf)
    /\ buf' = <<>>
    /\ UNCHANGED <<last, pc, mem, prev, seen, crashed>>
    /\ UNCHANGED thrVars

\* tmp.flush()
Write_flush ==
    /\ pc = "w_dump"
    /\ ~crashed
    /\ Dumped = Len(Serialize(mem))
    /\ ToDisk(buf)
    /\ buf' = <<>>
    /\ pc' = "w_fsync"
    /\ UNCHANGED <<last, mem, prev, seen, crashed>>
    /\ UNCHANGED thrVars

\* os.fsync(tmp.fileno())
Write_fsync ==
    /\ pc = "w_fsync"
    /\ ~crashed
    /\ pc' = "w_close"
    /\ UNCHANGED <<file, tmp, buf, last, mem, prev, seen, crashed>>
    /\ UNCHANGED thrVars

\* temp_path = tmp.name and the end of the with block, which closes tmp.
Write_close ==
    /\ pc = "w_close"
    /\ ~crashed
    /\ pc' = "w_replace"
    /\ UNCHANGED <<file, tmp, buf, last, mem, prev, seen, crashed>>
    /\ UNCHANGED thrVars

\* A replace that copies the temporary file over self.path chunk by chunk.
Write_replace_by_copy ==
    /\ pc = "w_replace"
    /\ ~crashed
    /\ IF file.exists /\ file.chunks = tmp.chunks
       THEN file' = file /\ tmp' = NoFile /\ pc' = "w_done"
       ELSE /\ file' = [exists |-> TRUE,
                        chunks |-> IF file = prev THEN SubSeq(tmp.chunks, 1, 1)
                                   ELSE SubSeq(tmp.chunks, 1, Len(file.chunks) + 1)]
            /\ tmp' = tmp
            /\ pc' = pc
    /\ UNCHANGED <<buf, last, mem, prev, seen, crashed>>
    /\ UNCHANGED thrVars

\* os.replace(temp_path, self.path)
Write_replace ==
    /\ pc = "w_replace"
    /\ ~crashed
    /\ file' = [exists |-> TRUE, chunks |-> tmp.chunks]
    /\ tmp' = NoFile
    /\ pc' = "w_done"
    /\ UNCHANGED <<buf, last, mem, prev, seen, crashed>>
    /\ UNCHANGED thrVars

\* _write returns and the public call returns after it.
Write_return ==
    /\ pc = "w_done"
    /\ ~crashed
    /\ pc' = "returned"
    /\ UNCHANGED <<file, tmp, buf, last, mem, prev, seen, crashed>>
    /\ UNCHANGED thrVars

\* The process dies: what it held in memory is gone, the files stay.
Crash ==
    /\ ~crashed
    /\ InWrite
    /\ crashed' = TRUE
    /\ buf' = <<>>
    /\ UNCHANGED <<file, tmp, last, pc, mem, prev, seen>>
    /\ UNCHANGED thrVars

\* A reader that holds no lock (another process) opens self.path and reads it.
Reader ==
    /\ file.exists
    /\ pc # "idle"
    /\ seen' = seen \cup {file}
    /\ UNCHANGED <<file, tmp, buf, last, pc, mem, prev, crashed>>
    /\ UNCHANGED thrVars

\* FileDatabase(path) on a path that does not exist: _ensure_exists is about
\* to run self._write(DEFAULT_DB).
InitWrite ==
    /\ file = NoFile
    /\ tmp = NoFile
    /\ buf = <<>>
    /\ last = [op |-> "__init__", status |-> "ok", msg |-> OK]
    /\ pc = "w_open"
    /\ mem = DEFAULT_DB
    /\ prev = NoFile
    /\ seen = {}
    /\ crashed = FALSE
    /\ ThreadsIdle

NextWrite ==
    \/ \E payload \in ValidServicePayloads : Start_create_service(payload)
    \/ \E id \in ServiceIds : Start_delete_service(id)
    \/ \E payload \in ValidAccountPayloads : Start_create_account(payload)
    \/ \E id \in AccountIds : Start_delete_account(id)
    \/ Write_open
    \/ Write_dump
    \/ Write_spill
    \/ Write_flush
    \/ Write_fsync
    \/ Write_close
    \/ Write_replace
    \/ Write_return
    \/ TakeResult
    \/ Crash
    \/ Reader

SpecWrite == InitWrite /\ [][NextWrite]_vars

-----------------------------------------------------------------------------
(* Recommendations of several priorities and their listing (specification  *)
(* SpecSort)                                                               *)

SortIds == {"r1", "r2", "r3"}
SortPriorities == {1, 2, 3}

\* Recommendations for service s1, of every id and priority.
SortPayloads ==
    {RecommendationPayload(id, NULL, "s1", priority) :
        id \in SortIds, priority \in SortPriorities}

Call_list_recommendations ==
    Finish([op |-> "list_recommendations"], list_recommendations(_read(file)))

NextSort ==
    \/ Call_create_service(ServicePayload("s1", "coding"))
    \/ \E payload \in SortPayloads : Call_create_recommendation(payload)
    \/ \E id \in SortIds, payload \in SortPayloads : Call_update_recommendation(id, payload)
    \/ \E id \in SortIds : Call_delete_recommendation(id)
    \/ Call_list_recommendations
    \/ TakeResult

SpecSort == Init /\ [][NextSort]_vars

-----------------------------------------------------------------------------
(* Accounts of several statuses and costs and the dashboard (specification *)
(* SpecDash)                                                               *)

\* 17.0 and 0.004 dollars.
DashCosts == {17000, 4}

DashServicePayloads == {ServicePayload("s1", "coding"), ServicePayload("s2", "general")}

DashAccountPayloads ==
    {SetKey(AccountPayload(id, service_id, status), "monthly_cost_usd", cost) :
        id \in AccountIds, service_id \in ServiceIds,
        status \in ALLOWED_STATUSES, cost \in DashCosts}

\* The filters of the list operations: none, the empty string of a query
\* such as ?status=, and values that some, or no, record has.
ListCategories == {NULL, "", "coding", "general", "art"}
ListStatuses == {NULL, "", "active", "paused"}

Call_dashboard_summary ==
    Finish([op |-> "dashboard_summary"], dashboard_summary(_read(file)))

NextDash ==
    \/ \E payload \in DashServicePayloads : Call_create_service(payload)
    \/ \E payload \in DashAccountPayloads : Call_create_account(payload)
    \/ \E id \in AccountIds, payload \in DashAccountPayloads :
          Call_update_account(id, payload)
    \/ \E id \in AccountIds : Call_delete_account(id)
    \/ Call_dashboard_summary
    \/ \E category \in ListCategories : Call_list_services(category)
    \/ \E category \in ListCategories, status \in ListStatuses :
          Call_list_accounts(category, status)
    \/ TakeResult

SpecDash == Init /\ [][NextDash]_vars

-----------------------------------------------------------------------------
(* Budgets and the alerts of the dashboard (specification SpecAlerts) *)

AlertAccountPayloads ==
    {AccountPayload(id, "s1", status) : id \in AccountIds, status \in ALLOWED_STATUSES}

\* monthly_budget_usd, alert_threshold_percent, current_month_spend_usd:
\* 86.67 percent used, 80 percent used, 66.67 percent used, no budget to use,
\* and 199.99 of 250.00, which is 79.996 percent.
AlertFigures ==
    {<<30000, 80, 26000>>, <<30000, 80, 24000>>, <<30000, 80, 20000>>,
     <<0, 80, 26000>>, <<250000, 80, 199990>>}

AlertBudgetPayloads ==
    {[id |-> id, account_id |-> account_id, monthly_budget_usd |-> f[1],
      alert_threshold_percent |-> f[2], current_month_spend_usd |-> f[3]] :
        id \in BudgetIds, account_id \in AccountIds, f \in AlertFigures}

NextAlerts ==
    \/ Call_create_service(ServicePayload("s1", "coding"))
    \/ \E payload \in AlertAccountPayloads : Call_create_account(payload)
    \/ \E payload \in AlertAccountPayloads : Call_update_account(payload["id"], payload)
    \/ \E id \in AccountIds : Call_delete_account(id)
    \/ \E payload \in AlertBudgetPayloads : Call_create_budget(payload)
    \/ \E payload \in AlertBudgetPayloads : Call_update_budget(payload["id"], payload)
    \/ \E id \in BudgetIds : Call_delete_budget(id)
    \/ Call_dashboard_summary
    \/ TakeResult

SpecAlerts == Init /\ [][NextAlerts]_vars

-----------------------------------------------------------------------------
(* Stores opened on files of any origin (specification SpecFiles): the     *)
(* file may be absent, written by this program, written by an older        *)
(* version without usage_budgets or recommendations, or not a store's      *)
(* document at all.                                                        *)

Archive == <<[id |-> "x1"]>>

InitialFiles ==
    {NoFile,
     Written(DEFAULT_DB),
     Written([services |-> <<ServicePayload("s1", "coding")>>, accounts |-> <<>>]),
     Written([services |-> <<ServicePayload("s1", "coding")>>,
              accounts |-> <<AccountPayload("a1", "s1", "active")>>,
              usage_budgets |-> <<BudgetPayload("b1", "a1")>>]),
     Written([services |-> <<ServicePayload("s1", "coding")>>,
              accounts |-> <<AccountPayload("a1", "s1", "active")>>,
              usage_budgets |-> <<>>,
              recommendations |-> <<RecommendationPayload("r1", "a1", "absent", 1)>>,
              archive |-> Archive]),
     Written([services |-> <<>>, accounts |-> <<>>, archive |-> Archive]),
     Written([accounts |-> <<>>, usage_budgets |-> <<>>, recommendations |-> <<>>]),
     Written([services |-> <<ServicePayload("s1", "coding")>>]),
     Written([archive |-> Archive]),
     [exists |-> TRUE, chunks |-> <<OpenChunk>>]}

\* self._write(self._read()): the document loaded is saved as it is.
save_load(rd) ==
    IF rd.status # "ok" THEN rd
    ELSE Success(rd.data)

\* FileDatabase(path): the constructor, on a path no store is open on yet
\* or on the path of a store that is open already.
Call_open ==
    /\ pc \in {"closed", "idle"}
    /\ ~crashed
    /\ LET r == _ensure_exists(file)
       IN /\ file' = IF "data" \in DOMAIN r THEN Written(r.data) ELSE file
          /\ last' = [op |-> "open", status |-> r.status, msg |-> r.msg]
    /\ prev' = file
    /\ pc' = "returned"
    /\ UNCHANGED <<tmp, buf, mem, seen, crashed>>
    /\ UNCHANGED thrVars

Call_save_load ==
    Finish([op |-> "save_load"], save_load(_read(file)))

InitFiles ==
    /\ file \in InitialFiles
    /\ tmp = NoFile
    /\ buf = <<>>
    /\ last = NoCall
    /\ pc = "closed"
    /\ mem = DEFAULT_DB
    /\ prev = NoFile
    /\ seen = {}
    /\ crashed = FALSE
    /\ ThreadsIdle

NextFiles ==
    \/ Call_open
    \/ Call_get_config
    \/ \E category \in {NULL, "coding"} : Call_list_services(category)
    \/ \E category \in {NULL, "coding"}, status \in {NULL, "active"} :
          Call_list_accounts(category, status)
    \/ Call_list_budgets
    \/ Call_list_recommendations
    \/ Call_dashboard_summary
    \/ \E id \in ServiceIds : Call_get_service(id)
    \/ \E id \in AccountIds : Call_get_account(id)
    \/ \E id \in BudgetIds : Call_get_budget(id)
    \/ \E id \in RecommendationIds : Call_get_recommendation(id)
    \/ Call_save_load
    \/ \E payload \in ValidServicePayloads : Call_create_service(payload)
    \/ \E id \in ServiceIds : Call_delete_service(id)
    \/ \E payload \in ValidAccountPayloads : Call_create_account(payload)
    \/ \E id \in AccountIds : Call_delete_account(id)
    \/ TakeResult

SpecFiles == InitFiles /\ [][NextFiles]_vars

-----------------------------------------------------------------------------
(* Whole-document import (specification SpecImport) *)

\* The document of test_replace_config, a document with the required
\* collections only, an empty one, one whose account names a service it
\* does not hold, and two without a required collection.
ImportDocuments ==
    {[services |-> <<ServicePayload("s1", "coding")>>,
      accounts |-> <<AccountPayload("a1", "s1", "active")>>,
      usage_budgets |-> <<BudgetPayload("b1", "a1")>>,
      recommendations |-> <<RecommendationPayload("r1", "a1", "absent", 1)>>],
     [services |-> <<ServicePayload("s2", "general")>>, accounts |-> <<>>],
     DEFAULT_DB,
     [services |-> <<>>, accounts |-> <<AccountPayload("a2", "s1", "active")>>,
      usage_budgets |-> <<>>, recommendations |-> <<>>],
     [services |-> <<ServicePayload("s1", "coding")>>],
     [usage_budgets |-> <<>>, recommendations |-> <<>>]}

Call_replace_config(payload) ==
    Finish([op |-> "replace_config", payload |-> payload], replace_config(payload))

NextImport ==
    \/ \E payload \in ValidServicePayloads : Call_create_service(payload)
    \/ \E payload \in ValidAccountPayloads : Call_create_account(payload)
    \/ \E payload \in ValidBudgetPayloads : Call_create_budget(payload)
    \/ \E payload \in ImportDocuments : Call_replace_config(payload)
    \/ Call_get_config
    \/ Call_list_recommendations
    \/ Call_dashboard_summary
    \/ TakeResult

SpecImport == Init /\ [][NextImport]_vars

-----------------------------------------------------------------------------
(* Records with optional keys and their updates (specification SpecMerge) *)

\* Services without docs_url, with one, and with docs_url None.
MergeServicePayloads ==
    {ServicePayload(id, "coding") : id \in ServiceIds}
    \cup {SetKey(ServicePayload(id, "coding"), "docs_url", d) : id \in ServiceIds, d \in {"d", NULL}}

\* Accounts of 17.0 and 22.0 without optional keys, with renewal_day, and
\* with notes.
MergeAccountPayloads ==
    {SetKey(AccountPayload(id, "s1", "active"), "monthly_cost_usd", cost) :
        id \in AccountIds, cost \in {17000, 22000}}
    \cup {SetKey(AccountPayload(id, "s1", "active"), "renewal_day", 3) : id \in AccountIds}
    \cup {SetKey(AccountPayload(id, "s1", "paused"), "notes", "x") : id \in AccountIds}

NextMerge ==
    \/ \E payload \in MergeServicePayloads : Call_create_service(payload)
    \/ \E id \in ServiceIds, payload \in MergeServicePayloads : Call_update_service(id, payload)
    \/ \E payload \in MergeAccountPayloads : Call_create_account(payload)
    \/ \E id \in AccountIds, payload \in MergeAccountPayloads : Call_update_account(id, payload)
    \/ \E id \in AccountIds : Call_delete_account(id)
    \/ TakeResult

SpecMerge == Init /\ [][NextMerge]_vars

-----------------------------------------------------------------------------
(* Threads (specifications SpecThreads and SpecProcesses): a public call   *)
(* is a locked read of the file, checks and changes on the document in     *)
(* memory with no lock held, and a locked save.  The caller starts up to   *)
(* one call per thread and joins the threads before it starts new calls.   *)

\* The operation a call names, applied to what self._read() gave.
Apply(call, rd) ==
    CASE call.op = "create_service" -> create_service(rd, call.payload)
      [] call.op = "update_service" -> update_service(rd, call.id, call.payload)
      [] call.op = "delete_service" -> delete_service(rd, call.id)
      [] call.op = "create_account" -> create_account(rd, call.payload)
      [] call.op = "update_account" -> update_account(rd, call.id, call.payload)
      [] call.op = "delete_account" -> delete_account(rd, call.id)
      [] call.op = "create_budget" -> create_budget(rd, call.payload)
      [] call.op = "update_budget" -> update_budget(rd, call.id, call.payload)
      [] call.op = "delete_budget" -> delete_budget(rd, call.id)
      [] call.op = "create_recommendation" -> create_recommendation(rd, call.payload)
      [] call.op = "update_recommendation" ->
            update_recommendation(rd, call.id, call.payload)
      [] call.op = "delete_recommendation" -> delete_recommendation(rd, call.id)

\* create_service and update_service validate before they call self._read().
RaisesBeforeRead(call) ==
    /\ call.op \in {"create_service", "update_service"}
    /\ \/ validate_service_payload(call.payload) # OK
       \/ call.op = "update_service" /\ call.payload["id"] # call.id

ReadSection == {"r_load", "r_release"}
WriteSection == {"w_open", "w_dump", "w_fsync", "w_close", "w_replace", "w_release"}
InFlight(t) == thr[t].pc \notin {"idle", "returned"}

\* The calls the threads make.
ThreadCalls ==
    {[op |-> "create_service", id |-> payload["id"], payload |-> payload] :
        payload \in ValidServicePayloads \cup {ServicePayload("s1", "bogus")}}
    \cup {[op |-> "delete_service", id |-> id] : id \in ServiceIds}

\* with self._lock: entered without waiting for the lock to be free.
Acquire_unguarded(t, db) ==
    lock' = [lock EXCEPT ![db] = t]

\* with self._lock: (entry)
Acquire(t, db) ==
    /\ lock[db] = NULL
    /\ lock' = [lock EXCEPT ![db] = t]

\* with self._lock: (exit, by the end of the block or by an exception)
Release(t, db) ==
    lock' = [lock EXCEPT ![db] = NULL]

\* One name for the temporary files of all saves.
TmpName_shared(t) == "t1"

\* NamedTemporaryFile gives every save a file name of its own.
TmpName(t) == t

\* Thread t starts a public call.
T_call(t, call) ==
    /\ thr[t].pc = "idle"
    /\ \A u \in Threads : thr[u].pc # "returned"
    /\ thr' = [thr EXCEPT ![t] =
                 [pc |-> IF RaisesBeforeRead(call) THEN "returned" ELSE "r_acquire",
                  call |-> call,
                  rd |-> NoRead,
                  r |-> IF RaisesBeforeRead(call) THEN Apply(call, NoRead) ELSE NoRead,
                  base |-> IF \E u \in Threads : InFlight(u)
                           THEN thr[CHOOSE u \in Threads : InFlight(u)].base
                           ELSE file]]
    /\ UNCHANGED <<file, lock, tmps>>
    /\ UNCHANGED seqVars

\* _read: with self._lock
T_read_acquire(t, db) ==
    /\ thr[t].pc = "r_acquire"
    /\ Acquire(t, db)
    /\ thr' = [thr EXCEPT ![t].pc = "r_load"]
    /\ UNCHANGED <<file, tmps>>
    /\ UNCHANGED seqVars

\* _read: self.path.open and json.load
T_read_load(t) ==
    /\ thr[t].pc = "r_load"
    /\ thr' = [thr EXCEPT ![t].pc = "r_release", ![t].rd = _read(file)]
    /\ UNCHANGED <<file, lock, tmps>>
    /\ UNCHANGED seqVars

\* _read: the end of the with block
T_read_release(t, db) ==
    /\ thr[t].pc = "r_release"
    /\ Release(t, db)
    /\ thr' = [thr EXCEPT ![t].pc = "check"]
    /\ UNCHANGED <<file, tmps>>
    /\ UNCHANGED seqVars

\* The lines of the public method between self._read() and self._write(data).
T_check(t) ==
    /\ thr[t].pc = "check"
    /\ LET r == Apply(thr[t].call, thr[t].rd)
       IN thr' = [thr EXCEPT ![t].r = r,
                             ![t].pc = IF "data" \in DOMAIN r THEN "w_acquire"
                                       ELSE "returned"]
    /\ UNCHANGED <<file, lock, tmps>>
    /\ UNCHANGED seqVars

\* _write: with self._lock
T_write_acquire(t, db) ==
    /\ thr[t].pc = "w_acquire"
    /\ Acquire(t, db)
    /\ thr' = [thr EXCEPT ![t].pc = "w_open"]
    /\ UNCHANGED <<file, tmps>>
    /\ UNCHANGED seqVars

\* _write: NamedTemporaryFile(mode="w", delete=False, dir=self.path.parent)
T_write_open(t) ==
    /\ thr[t].pc = "w_open"
    /\ tmps' = [tmps EXCEPT ![TmpName(t)] = [exists |-> TRUE, chunks |-> <<>>]]
    /\ thr' = [thr EXCEPT ![t].pc = "w_dump"]
    /\ UNCHANGED <<file, lock>>
    /\ UNCHANGED seqVars

\* _write: json.dump, one more chunk into the temporary file
T_write_dump(t) ==
    /\ thr[t].pc = "w_dump"
    /\ Len(tmps[TmpName(t)].chunks) < Len(Serialize(thr[t].r.data))
    /\ tmps' = [tmps EXCEPT ![TmpName(t)].chunks =
                   Append(@, Serialize(thr[t].r.data)[Len(@) + 1])]
    /\ UNCHANGED <<file, lock, thr>>
    /\ UNCHANGED seqVars

\* _write: tmp.flush() after the last chunk
T_write_flush(t) ==
    /\ thr[t].pc = "w_dump"
    /\ Len(tmps[TmpName(t)].chunks) >= Len(Serialize(thr[t].r.data))
    /\ thr' = [thr EXCEPT ![t].pc = "w_fsync"]
    /\ UNCHANGED <<file, lock, tmps>>
    /\ UNCHANGED seqVars

\* _write: os.fsync(tmp.fileno())
T_write_fsync(t) ==
    /\ thr[t].pc = "w_fsync"
    /\ thr' = [thr EXCEPT ![t].pc = "w_close"]
    /\ UNCHANGED <<file, lock, tmps>>
    /\ UNCHANGED seqVars

\* _write: temp_path = tmp.name and the end of the inner with block
T_write_close(t) ==
    /\ thr[t].pc = "w_close"
    /\ thr' = [thr EXCEPT ![t].pc = "w_replace"]
    /\ UNCHANGED <<file, lock, tmps>>
    /\ UNCHANGED seqVars

\* A save that puts only the collections the thread has changed into the
\* document that is in the file at that moment.
Replaced_patch(t) ==
    Written([key \in DOMAIN Parse(file.chunks) |->
                IF thr[t].r.data[key] # thr[t].rd.data[key]
                THEN thr[t].r.data[key]
                ELSE Parse(file.chunks)[key]])

\* The content of self.path after os.replace(temp_path, self.path): the
\* whole document the thread has dumped.
Replaced(t) == [exists |-> TRUE, chunks |-> tmps[TmpName(t)].chunks]

\* _write: os.replace(temp_path, self.path)
T_write_replace(t) ==
    /\ thr[t].pc = "w_replace"
    /\ file' = Replaced(t)
    /\ tmps' = [tmps EXCEPT ![TmpName(t)] = NoFile]
    /\ thr' = [thr EXCEPT ![t].pc = "w_release"]
    /\ UNCHANGED lock
    /\ UNCHANGED seqVars

\* _write: the end of the outer with block, and the return of the public method
T_write_release(t, db) ==
    /\ thr[t].pc = "w_release"
    /\ Release(t, db)
    /\ thr' = [thr EXCEPT ![t].pc = "returned"]
    /\ UNCHANGED <<file, tmps>>
    /\ UNCHANGED seqVars

\* The caller joins its threads and takes their results.
T_join ==
    /\ \A t \in Threads : ~InFlight(t)
    /\ \E t \in Threads : thr[t].pc = "returned"
    /\ thr' = [t \in Threads |-> IdleThread]
    /\ UNCHANGED <<file, lock, tmps>>
    /\ UNCHANGED seqVars

\* All threads call the one FileDatabase instance db1.
NextThreads ==
    \/ \E t \in Threads, call \in ThreadCalls : T_call(t, call)
    \/ \E t \in Threads : T_read_acquire(t, "db1")
    \/ \E t \in Threads : T_read_load(t)
    \/ \E t \in Threads : T_read_release(t, "db1")
    \/ \E t \in Threads : T_check(t)
    \/ \E t \in Threads : T_write_acquire(t, "db1")
    \/ \E t \in Threads : T_write_open(t)
    \/ \E t \in Threads : T_write_dump(t)
    \/ \E t \in Threads : T_write_flush(t)
    \/ \E t \in Threads : T_write_fsync(t)
    \/ \E t \in Threads : T_write_close(t)
    \/ \E t \in Threads : T_write_replace(t)
    \/ \E t \in Threads : T_write_release(t, "db1")
    \/ T_join

SpecThreads == Init /\ [][NextThreads]_vars

\* Two processes: each thread calls a FileDatabase instance of its own, both
\* opened on the same path.
InstanceOf == [t1 |-> "db1", t2 |-> "db2"]

NextProcesses ==
    \/ \E t \in Threads, call \in ThreadCalls : T_call(t, call)
    \/ \E t \in Threads : T_read_acquire(t, InstanceOf[t])
    \/ \E t \in Threads : T_read_load(t)
    \/ \E t \in Threads : T_read_release(t, InstanceOf[t])
    \/ \E t \in Threads : T_check(t)
    \/ \E t \in Threads : T_write_acquire(t, InstanceOf[t])
    \/ \E t \in Threads : T_write_open(t)
    \/ \E t \in Threads : T_write_dump(t)
    \/ \E t \in Threads : T_write_flush(t)
    \/ \E t \in Threads : T_write_fsync(t)
    \/ \E t \in Threads : T_write_close(t)
    \/ \E t \in Threads : T_write_replace(t)
    \/ \E t \in Threads : T_write_release(t, InstanceOf[t])
    \/ T_join

SpecProcesses == Init /\ [][NextProcesses]_vars

-----------------------------------------------------------------------------
(* Threads that create and delete services, accounts and budgets on one   *)
(* instance (specification SpecRace)                                       *)

RaceCalls ==
    {[op |-> "create_service", id |-> "s1", payload |-> ServicePayload("s1", "coding")],
     [op |-> "delete_service", id |-> "s1"],
     [op |-> "create_account", id |-> "a1", payload |-> AccountPayload("a1", "s1", "active")],
     [op |-> "create_account", id |-> "a2", payload |-> AccountPayload("a2", "s1", "active")],
     [op |-> "delete_account", id |-> "a1"],
     [op |-> "create_budget", id |-> "b1", payload |-> BudgetPayload("b1", "a1")],
     [op |-> "create_budget", id |-> "b2", payload |-> BudgetPayload("b2", "a1")],
     [op |-> "update_budget", id |-> "b2", payload |-> BudgetPayload("b2", "a2")],
     [op |-> "delete_budget", id |-> "b1"]}

NextRace ==
    \/ \E t \in Threads, call \in RaceCalls : T_call(t, call)
    \/ \E t \in Threads : T_read_acquire(t, "db1")
    \/ \E t \in Threads : T_read_load(t)
    \/ \E t \in Threads : T_read_release(t, "db1")
    \/ \E t \in Threads : T_check(t)
    \/ \E t \in Threads : T_write_acquire(t, "db1")
    \/ \E t \in Threads : T_write_open(t)
    \/ \E t \in Threads : T_write_dump(t)
    \/ \E t \in Threads : T_write_flush(t)
    \/ \E t \in Threads : T_write_fsync(t)
    \/ \E t \in Threads : T_write_close(t)
    \/ \E t \in Threads : T_write_replace(t)
    \/ \E t \in Threads : T_write_release(t, "db1")
    \/ T_join

SpecRace == Init /\ [][NextRace]_vars

-----------------------------------------------------------------------------
(* Threads under fair scheduling, on a file that may be unreadable and     *)
(* with saves that may fail (specification SpecFair)                       *)

\* A failed save that leaves the with block without giving the lock back.
T_write_fail_keeps_lock(t, db) ==
    /\ thr[t].pc \in {"w_open", "w_dump", "w_fsync", "w_close", "w_replace"}
    /\ thr' = [thr EXCEPT ![t].pc = "returned",
                          ![t].r = Failure("OSError", "The save failed.")]
    /\ tmps' = [tmps EXCEPT ![TmpName(t)] = NoFile]
    /\ UNCHANGED <<file, lock>>
    /\ UNCHANGED seqVars

\* _write: NamedTemporaryFile, json.dump, flush, os.fsync or os.replace
\* raises inside `with self._lock`: the with block gives the lock back, the
\* exception leaves the public method and self.path is as it was.  The
\* temporary file stays on disk (delete=False) under a name that no later
\* save is given; tmps holds the files of the saves in progress only, so the
\* abandoned one leaves it.
T_write_fail(t, db) ==
    /\ thr[t].pc \in {"w_open", "w_dump", "w_fsync", "w_close", "w_replace"}
    /\ Release(t, db)
    /\ thr' = [thr EXCEPT ![t].pc = "returned",
                          ![t].r = Failure("OSError", "The save failed.")]
    /\ tmps' = [tmps EXCEPT ![TmpName(t)] = NoFile]
    /\ UNCHANGED file
    /\ UNCHANGED seqVars

\* The steps thread t takes by itself once it is inside a call that does
\* not fail.
ThreadStep(t) ==
    \/ T_read_acquire(t, "db1")
    \/ T_read_load(t)
    \/ T_read_release(t, "db1")
    \/ T_check(t)
    \/ T_write_acquire(t, "db1")
    \/ T_write_open(t)
    \/ T_write_dump(t)
    \/ T_write_flush(t)
    \/ T_write_fsync(t)
    \/ T_write_close(t)
    \/ T_write_replace(t)
    \/ T_write_release(t, "db1")

\* The store's file is the default document, or has been removed or
\* truncated by another program since the store was opened.
InitFair ==
    /\ file \in {Written(DEFAULT_DB), NoFile, [exists |-> TRUE, chunks |-> <<OpenChunk>>]}
    /\ tmp = NoFile
    /\ buf = <<>>
    /\ last = NoCall
    /\ pc = "idle"
    /\ mem = DEFAULT_DB
    /\ prev = NoFile
    /\ seen = {}
    /\ crashed = FALSE
    /\ ThreadsIdle

NextFair ==
    \/ \E t \in Threads, call \in ThreadCalls : T_call(t, call)
    \/ \E t \in Threads : ThreadStep(t)
    \/ \E t \in Threads : T_write_fail(t, "db1")
    \/ T_join

\* Fair scheduling: a thread that can take a step, the acquisition of the
\* free lock included, takes one in the end.  Nothing makes the caller
\* start a call or a save fail.
SpecFair ==
    /\ InitFair
    /\ [][NextFair]_vars
    /\ \A t \in Threads : WF_vars(ThreadStep(t))

-----------------------------------------------------------------------------
(* Properties of sequential use (specification Spec) *)

Returned(op) == pc = "returned" /\ last.op = op

Raised(msg) == last.status = "ValidationError" /\ last.msg = msg

CreateOps ==
    [create_service |-> "services", create_account |-> "accounts",
     create_budget |-> "usage_budgets", create_recommendation |-> "recommendations"]

UpdateOps ==
    [update_service |-> "services", update_account |-> "accounts",
     update_budget |-> "usage_budgets", update_recommendation |-> "recommendations"]

DeleteOps ==
    [delete_service |-> "services", delete_account |-> "accounts",
     delete_budget |-> "usage_budgets", delete_recommendation |-> "recommendations"]

GetOps ==
    [get_service |-> "services", get_account |-> "accounts",
     get_budget |-> "usage_budgets", get_recommendation |-> "recommendations"]

\* C1: no two records of one collection of the document on disk have the
\* same id, whatever create, update and delete calls were made.
C1_UniqueIds ==
    \A k \in DOMAIN Doc :
        \A i, j \in DOMAIN Doc[k] : Doc[k][i]["id"] = Doc[k][j]["id"] => i = j

\* A second recommendation "r1" was refused while two recommendations are stored.
C1_Witness ==
    /\ Returned("create_recommendation")
    /\ Raised("Recommendation already exists.")
    /\ Len(Doc["recommendations"]) = 2

\* C2: create_E with a payload whose id is already in the collection raises
\* ValidationError and leaves the file as it was.
C2_DuplicateCreateRejected ==
    \A op \in DOMAIN CreateOps :
        (Returned(op) /\ HasId(PrevDoc[CreateOps[op]], last.payload["id"]))
            => (last.status = "ValidationError" /\ file = prev)

\* A budget id that is already stored was sent to create_budget, for an
\* account that has no budget yet.
C2_Witness ==
    /\ Returned("create_budget")
    /\ Raised("Budget already exists.")
    /\ \A i \in DOMAIN Doc["usage_budgets"] :
          Doc["usage_budgets"][i]["account_id"] # last.payload["account_id"]

\* C3: every stored account names a stored service and every stored budget
\* a stored account; create/update_account with a service_id that matches no
\* service and create/update_budget with an account_id that matches no
\* account raise ValidationError.
C3_AccountAndBudgetReferencesResolve ==
    /\ \A i \in DOMAIN Doc["accounts"] :
          HasId(Doc["services"], Doc["accounts"][i]["service_id"])
    /\ \A i \in DOMAIN Doc["usage_budgets"] :
          HasId(Doc["accounts"], Doc["usage_budgets"][i]["account_id"])
    /\ \A op \in {"create_account", "update_account"} :
          (/\ Returned(op)
           /\ "service_id" \in DOMAIN last.payload
           /\ ~HasId(PrevDoc["services"], last.payload["service_id"]))
             => last.status = "ValidationError"
    /\ \A op \in {"create_budget", "update_budget"} :
          (/\ Returned(op)
           /\ "account_id" \in DOMAIN last.payload
           /\ ~HasId(PrevDoc["accounts"], last.payload["account_id"]))
             => last.status = "ValidationError"

\* update_account was refused for a stored account because the new
\* service_id matches no service.
C3_Witness ==
    /\ Returned("update_account")
    /\ Raised("Unknown service_id.")
    /\ HasId(Doc["accounts"], last.id)

\* C4: every stored recommendation whose account_id is set names a stored
\* account and every one whose service_id is set names a stored service.
C4_RecommendationReferencesResolve ==
    \A i \in DOMAIN Doc["recommendations"] :
        LET rec == Doc["recommendations"][i]
        IN /\ Truthy(Get(rec, "account_id")) => HasId(Doc["accounts"], rec["account_id"])
           /\ Truthy(Get(rec, "service_id")) => HasId(Doc["services"], rec["service_id"])

\* C5: no two stored budgets have the same account_id; create_budget for an
\* account that has a budget and update_budget towards an account that owns
\* another budget raise ValidationError.
C5_OneBudgetPerAccount ==
    /\ \A i, j \in DOMAIN Doc["usage_budgets"] :
          Doc["usage_budgets"][i]["account_id"] = Doc["usage_budgets"][j]["account_id"]
             => i = j
    /\ (/\ Returned("create_budget")
        /\ "account_id" \in DOMAIN last.payload
        /\ \E i \in DOMAIN PrevDoc["usage_budgets"] :
              PrevDoc["usage_budgets"][i]["account_id"] = last.payload["account_id"])
          => last.status = "ValidationError"
    /\ (/\ Returned("update_budget")
        /\ "account_id" \in DOMAIN last.payload
        /\ \E i \in DOMAIN PrevDoc["usage_budgets"] :
              /\ PrevDoc["usage_budgets"][i]["id"] # last.id
              /\ PrevDoc["usage_budgets"][i]["account_id"] = last.payload["account_id"])
          => last.status = "ValidationError"

\* update_budget was refused because the account it points at owns the
\* other budget.
C5_Witness ==
    /\ Returned("update_budget")
    /\ Raised("Account already has a budget.")
    /\ Len(Doc["usage_budgets"]) = 2

\* C6: delete_service(id) raises ValidationError and leaves the file as it
\* was whenever a stored account has service_id = id; when it succeeds no
\* account names the service and exactly that service is gone.
C6_DeleteServiceGuard ==
    Returned("delete_service") =>
        LET used == \E i \in DOMAIN PrevDoc["accounts"] :
                        PrevDoc["accounts"][i]["service_id"] = last.id
        IN /\ used => (last.status = "ValidationError" /\ file = prev)
           /\ last.status = "ok" =>
                 /\ ~used
                 /\ HasId(PrevDoc["services"], last.id)
                 /\ Len(Doc["services"]) = Len(PrevDoc["services"]) - 1
                 /\ Doc = SetKey(PrevDoc, "services",
                                 SelectSeq(PrevDoc["services"],
                                           LAMBDA svc : svc["id"] # last.id))

\* delete_service was refused for a service that an account uses.
C6_Witness ==
    /\ Returned("delete_service")
    /\ Raised("Cannot delete a service used by an account.")
    /\ HasId(Doc["services"], last.id)

\* C7: a successful delete_account(A) removes account A, the budgets with
\* account_id = A and the recommendations with account_id = A, and leaves
\* every other record where it was.
C7_DeleteAccountCascade ==
    (Returned("delete_account") /\ last.status = "ok") =>
        /\ DOMAIN Doc = DOMAIN PrevDoc
        /\ HasId(PrevDoc["accounts"], last.id)
        /\ Doc["services"] = PrevDoc["services"]
        /\ Doc["accounts"] =
              SelectSeq(PrevDoc["accounts"], LAMBDA acc : acc["id"] # last.id)
        /\ Doc["usage_budgets"] =
              SelectSeq(PrevDoc["usage_budgets"],
                        LAMBDA budget : budget["account_id"] # last.id)
        /\ Doc["recommendations"] =
              SelectSeq(PrevDoc["recommendations"],
                        LAMBDA rec : ("account_id" \notin DOMAIN rec)
                                     \/ rec["account_id"] # last.id)

\* The deleted account owned a budget and a recommendation that also carried
\* a service_id, and a recommendation with a service_id only is still stored.
C7_Witness ==
    /\ Returned("delete_account")
    /\ last.status = "ok"
    /\ \E i \in DOMAIN PrevDoc["usage_budgets"] :
          PrevDoc["usage_budgets"][i]["account_id"] = last.id
    /\ \E i \in DOMAIN PrevDoc["recommendations"] :
          /\ PrevDoc["recommendations"][i]["account_id"] = last.id
          /\ Truthy(Get(PrevDoc["recommendations"][i], "service_id"))
    /\ \E i \in DOMAIN Doc["recommendations"] :
          /\ ~Truthy(Get(Doc["recommendations"][i], "account_id"))
          /\ Truthy(Get(Doc["recommendations"][i], "service_id"))

\* C8: a call that ends in an error leaves the file exactly as it was.
C8_ErrorsLeaveDocument ==
    (pc = "returned" /\ last.status # "ok") => file = prev

\* A budget was found and its payload was valid, and update_budget still
\* raised at its last check.
C8_Witness ==
    /\ Returned("update_budget")
    /\ Raised("Account already has a budget.")
    /\ \E i \in DOMAIN Doc["usage_budgets"] :
          /\ Doc["usage_budgets"][i]["id"] = last.id
          /\ Doc["usage_budgets"][i]["account_id"] # last.payload["account_id"]

\* The key names with "password" in them, in whatever letter case.
HasPasswordKey(d) == \E key \in DOMAIN d : key \in {"password_hint", "Password"}

\* C14: create_E and update_E with a payload that has a key containing
\* "password" in any letter case raise ValidationError and leave the file as
\* it was, for every entity kind and whatever the key's value; no stored
\* record has such a key.
C14_PasswordKeysRejected ==
    /\ \A op \in (DOMAIN CreateOps) \cup (DOMAIN UpdateOps) :
          (Returned(op) /\ HasPasswordKey(last.payload))
             => (last.status = "ValidationError" /\ file = prev)
    /\ \A k \in DOMAIN Doc : \A i \in DOMAIN Doc[k] : ~HasPasswordKey(Doc[k][i])

\* update_account was refused for a stored account because of the key
\* "Password" in an otherwise valid payload.
C14_Witness ==
    /\ Returned("update_account")
    /\ Raised("Password fields are not allowed.")
    /\ "Password" \in DOMAIN last.payload
    /\ HasId(Doc["accounts"], last.id)
    /\ validate_account_payload(Without(last.payload, "Password"), Doc["services"]) = OK

\* A reference that is set: the key is there and its value is not null.
IsSet(d, key) == key \in DOMAIN d /\ d[key] # NULL /\ d[key] # ""

\* C15: every stored recommendation has account_id or service_id set;
\* create_recommendation and update_recommendation with a payload in which
\* both are absent or null raise ValidationError.
C15_RecommendationHasTarget ==
    /\ \A i \in DOMAIN Doc["recommendations"] :
          \/ IsSet(Doc["recommendations"][i], "account_id")
          \/ IsSet(Doc["recommendations"][i], "service_id")
    /\ \A op \in {"create_recommendation", "update_recommendation"} :
          (/\ Returned(op)
           /\ ~IsSet(last.payload, "account_id")
           /\ ~IsSet(last.payload, "service_id"))
             => (last.status = "ValidationError" /\ file = prev)

\* update_recommendation was refused for a stored recommendation because the
\* payload has a null account_id and no service_id.
C15_Witness ==
    /\ Returned("update_recommendation")
    /\ Raised("Recommendation requires either 'account_id' or 'service_id'.")
    /\ HasId(Doc["recommendations"], last.id)
    /\ "account_id" \in DOMAIN last.payload
    /\ last.payload["account_id"] = NULL
    /\ "service_id" \notin DOMAIN last.payload

\* The absent value None.
IsNone(v) == DOMAIN v = {}

\* C16: get_E(id) returns the stored record with that id, or None when the
\* collection has none; it raises nothing and leaves the file as it was.
C16_GetReturnsRecordOrNone ==
    \A op \in DOMAIN GetOps :
        Returned(op) =>
            /\ last.status = "ok"
            /\ file = prev
            /\ IF HasId(Doc[GetOps[op]], last.id)
               THEN /\ ~IsNone(last.value)
                    /\ last.value["id"] = last.id
                    /\ \E i \in DOMAIN Doc[GetOps[op]] : Doc[GetOps[op]][i] = last.value
               ELSE IsNone(last.value)

\* get_recommendation found nothing under the id while another
\* recommendation is stored.
C16_Witness ==
    /\ Returned("get_recommendation")
    /\ last.status = "ok"
    /\ IsNone(last.value)
    /\ Len(Doc["recommendations"]) = 1

\* C17: update_E(id, payload) raises ValidationError when no stored record
\* has the id and when payload.id differs from id; a successful update
\* leaves the number of records and the id at every position of every
\* collection as they were.
C17_UpdateKeepsIdsAndCounts ==
    \A op \in DOMAIN UpdateOps :
        Returned(op) =>
            /\ ~HasId(PrevDoc[UpdateOps[op]], last.id)
                  => (last.status = "ValidationError" /\ file = prev)
            /\ ("id" \in DOMAIN last.payload /\ last.payload["id"] # last.id)
                  => (last.status = "ValidationError" /\ file = prev)
            /\ last.status = "ok" =>
                  \A k \in DOMAIN Doc :
                      /\ Len(Doc[k]) = Len(PrevDoc[k])
                      /\ \A i \in DOMAIN Doc[k] : Doc[k][i]["id"] = PrevDoc[k][i]["id"]

\* update_account was refused for the mismatch of two ids that are both
\* stored, with a payload that is valid.
C17_Witness ==
    /\ Returned("update_account")
    /\ Raised("Account ID in path and payload must match.")
    /\ HasId(Doc["accounts"], last.id)
    /\ HasId(Doc["accounts"], last.payload["id"])

\* C18: delete_E(id) raises ValidationError and leaves the file as it was
\* when no record of the collection has the id; a successful delete_E(id)
\* takes one record out of the collection, after which no record of the
\* collection has the id (so a second delete_E(id) fails).
C18_DeleteMissingFails ==
    \A op \in DOMAIN DeleteOps :
        Returned(op) =>
            /\ ~HasId(PrevDoc[DeleteOps[op]], last.id)
                  => (last.status = "ValidationError" /\ file = prev)
            /\ last.status = "ok" =>
                  /\ HasId(PrevDoc[DeleteOps[op]], last.id)
                  /\ Len(Doc[DeleteOps[op]]) = Len(PrevDoc[DeleteOps[op]]) - 1
                  /\ ~HasId(Doc[DeleteOps[op]], last.id)

\* delete_budget was refused for an id that is not stored while another
\* budget is.
C18_Witness ==
    /\ Returned("delete_budget")
    /\ Raised("Budget was not found.")
    /\ Len(Doc["usage_budgets"]) = 1
    /\ file = prev

\* Position of the record with that id in items.
PositionOf(items, id) == CHOOSE i \in DOMAIN items : items[i]["id"] = id

\* C19 (specification SpecSort): list_recommendations returns every stored
\* recommendation once, in non-decreasing order of priority, recommendations
\* of equal priority in their stored order, and leaves the file as it was.
C19_ListRecommendationsSorted ==
    Returned("list_recommendations") =>
        LET stored == Doc["recommendations"]
            listed == last.value
        IN /\ last.status = "ok"
           /\ file = prev
           /\ Len(listed) = Len(stored)
           /\ \A i \in DOMAIN stored : \E j \in DOMAIN listed : listed[j] = stored[i]
           /\ \A i, j \in DOMAIN listed :
                 i < j => listed[i]["priority"] <= listed[j]["priority"]
           /\ \A i, j \in DOMAIN stored :
                 (i < j /\ stored[i]["priority"] = stored[j]["priority"])
                    => PositionOf(listed, stored[i]["id"]) < PositionOf(listed, stored[j]["id"])

\* Three recommendations stored with priorities 2, 1, 2 were listed: the
\* second comes first and the two of priority 2 keep their order.
C19_Witness ==
    /\ Returned("list_recommendations")
    /\ Len(Doc["recommendations"]) = 3
    /\ Doc["recommendations"][1]["priority"] = 2
    /\ Doc["recommendations"][2]["priority"] = 1
    /\ Doc["recommendations"][3]["priority"] = 2
    /\ last.value[1] = Doc["recommendations"][2]

\* The sum of monthly_cost_usd over the accounts of the document on disk
\* at the positions in the set, and the positions of the active accounts.
RECURSIVE CostAt(_)
CostAt(positions) ==
    IF positions = {} THEN 0
    ELSE LET i == CHOOSE i \in positions : TRUE
         IN Doc["accounts"][i]["monthly_cost_usd"] + CostAt(positions \ {i})

ActivePositions == {i \in DOMAIN Doc["accounts"] : Doc["accounts"][i]["status"] = "active"}

\* C20 as stated (specification SpecDash): total_monthly_spend_usd is the
\* sum of monthly_cost_usd over the accounts whose status is active.
C20_TotalIsActiveSum ==
    Returned("dashboard_summary") =>
        last.value["total_monthly_spend_usd"] = CostAt(ActivePositions)

\* C20 (specification SpecDash): total_monthly_spend_usd is the sum of
\* monthly_cost_usd over the accounts whose status is active in the document
\* on disk, rounded to hundredths of a dollar; accounts that are paused or
\* cancelled, were updated away from active or were deleted add nothing; the
\* call leaves the file as it was.
C20_TotalIsRoundedActiveSum ==
    Returned("dashboard_summary") =>
        LET total == last.value["total_monthly_spend_usd"]
        IN /\ last.status = "ok"
           /\ file = prev
           /\ total % 10 = 0
           /\ 2 * (total - CostAt(ActivePositions)) <= 10
           /\ 2 * (CostAt(ActivePositions) - total) <= 10

\* The dashboard was computed for a document with an active account of
\* 17.0, an account of 0.004 that is not active, and a total of 17.0.
C20_Witness ==
    /\ Returned("dashboard_summary")
    /\ Len(Doc["accounts"]) = 2
    /\ Doc["accounts"][1]["status"] # "active"
    /\ Doc["accounts"][1]["monthly_cost_usd"] = 4
    /\ Doc["accounts"][2]["status"] = "active"
    /\ last.value["total_monthly_spend_usd"] = 17000

\* The positions of the active accounts whose service has the category.
ActiveIn(category) ==
    {i \in ActivePositions :
        \E s \in DOMAIN Doc["services"] :
            /\ Doc["services"][s]["id"] = Doc["accounts"][i]["service_id"]
            /\ Doc["services"][s]["category"] = category}

\* C21 (specification SpecDash): category_breakdown_usd has exactly the keys
\* coding, art, music and general; each value is the sum of monthly_cost_usd
\* over the active accounts whose service has that category, to the nearest
\* hundredth of a dollar, and zero when there is none; when every active
\* account costs a whole number of hundredths each value is that sum exactly
\* and the four values add up to total_monthly_spend_usd.
C21_BreakdownByCategory ==
    Returned("dashboard_summary") =>
        LET breakdown == last.value["category_breakdown_usd"]
            exact == \A i \in ActivePositions : Doc["accounts"][i]["monthly_cost_usd"] % 10 = 0
        IN /\ DOMAIN breakdown = {"coding", "art", "music", "general"}
           /\ \A category \in DOMAIN breakdown :
                 /\ breakdown[category] % 10 = 0
                 /\ 2 * (breakdown[category] - CostAt(ActiveIn(category))) <= 10
                 /\ 2 * (CostAt(ActiveIn(category)) - breakdown[category]) <= 10
                 /\ ActiveIn(category) = {} => breakdown[category] = 0
                 /\ exact => breakdown[category] = CostAt(ActiveIn(category))
           /\ exact => breakdown["coding"] + breakdown["art"] + breakdown["music"]
                         + breakdown["general"] = last.value["total_monthly_spend_usd"]

\* The dashboard was computed for an active account of 17.0 at a coding
\* service and an active account of 17.0 at a general service.
C21_Witness ==
    /\ Returned("dashboard_summary")
    /\ Len(Doc["accounts"]) = 2
    /\ \A i \in DOMAIN Doc["accounts"] :
          /\ Doc["accounts"][i]["status"] = "active"
          /\ Doc["accounts"][i]["monthly_cost_usd"] = 17000
    /\ last.value["category_breakdown_usd"] =
          [category \in {"coding", "art", "music", "general"} |->
              IF category \in {"coding", "general"} THEN 17000 ELSE 0]
    /\ last.value["total_monthly_spend_usd"] = 34000

\* The accounts of the document on disk that are active and own a budget
\* with monthly_budget_usd > 0 that passes the test, in insertion order.
Alerting(Test(_)) ==
    SelectSeq(Doc["accounts"],
              LAMBDA acc :
                 /\ acc["status"] = "active"
                 /\ \E i \in DOMAIN Doc["usage_budgets"] :
                       /\ Doc["usage_budgets"][i]["account_id"] = acc["id"]
                       /\ Doc["usage_budgets"][i]["monthly_budget_usd"] > 0
                       /\ Test(Doc["usage_budgets"][i]))

\* budget_alerts names the accounts of the list, one alert each, in order.
AlertsName(accounts) ==
    LET alerts == last.value["budget_alerts"]
    IN /\ Len(alerts) = Len(accounts)
       /\ \A i \in DOMAIN alerts :
             /\ alerts[i]["account_id"] = accounts[i]["id"]
             /\ alerts[i]["email"] = accounts[i]["email"]

\* current_month_spend_usd / monthly_budget_usd * 100 >= alert_threshold_percent
RatioReaches(budget) ==
    budget["current_month_spend_usd"] * 100
        >= budget["alert_threshold_percent"] * budget["monthly_budget_usd"]

\* The same ratio is at most half a hundredth of a percent below the
\* threshold, so that rounded to 2 decimals it reaches the threshold.
RoundedRatioReaches(budget) ==
    2 * (budget["alert_threshold_percent"] * 100 * budget["monthly_budget_usd"]
         - budget["current_month_spend_usd"] * 10000) <= budget["monthly_budget_usd"]

\* C22 as stated (specification SpecAlerts): budget_alerts lists, in the
\* insertion order of accounts, exactly the active accounts that own a budget
\* with monthly_budget_usd > 0 and current_month_spend_usd /
\* monthly_budget_usd * 100 >= alert_threshold_percent.
C22_AlertsByRatio ==
    Returned("dashboard_summary") => AlertsName(Alerting(RatioReaches))

\* C22 (specification SpecAlerts): budget_alerts lists, in the insertion
\* order of accounts, exactly the active accounts that own a budget with
\* monthly_budget_usd > 0 whose percentage used, rounded to 2 decimals,
\* reaches alert_threshold_percent (equality alerts); there is at most one
\* alert per account, none for accounts that are paused or cancelled, that
\* have no budget or whose monthly_budget_usd is 0; each alert carries the
\* rounded percentage; the call leaves the file as it was.
C22_AlertsByRoundedRatio ==
    Returned("dashboard_summary") =>
        LET alerts == last.value["budget_alerts"]
        IN /\ file = prev
           /\ AlertsName(Alerting(RoundedRatioReaches))
           /\ \A i, j \in DOMAIN alerts :
                 alerts[i]["account_id"] = alerts[j]["account_id"] => i = j
           /\ \A i \in DOMAIN alerts :
                 \E a \in DOMAIN Doc["accounts"], b \in DOMAIN Doc["usage_budgets"] :
                    LET budget == Doc["usage_budgets"][b]
                        off == alerts[i]["percent_used"] * budget["monthly_budget_usd"]
                               - budget["current_month_spend_usd"] * 10000
                    IN /\ Doc["accounts"][a]["id"] = alerts[i]["account_id"]
                       /\ Doc["accounts"][a]["status"] = "active"
                       /\ budget["account_id"] = alerts[i]["account_id"]
                       /\ budget["monthly_budget_usd"] > 0
                       /\ 2 * off <= budget["monthly_budget_usd"]
                       /\ 2 * (0 - off) <= budget["monthly_budget_usd"]
                       /\ alerts[i]["percent_used"] >= budget["alert_threshold_percent"] * 100

\* The dashboard was computed for two active accounts, a2 stored before a1,
\* a1 with 26.0 of 30.0 used and a2 with exactly its 80 percent used: both
\* alert, a2 first.
C22_Witness ==
    /\ Returned("dashboard_summary")
    /\ Len(Doc["accounts"]) = 2
    /\ Doc["accounts"][1]["id"] = "a2"
    /\ Len(last.value["budget_alerts"]) = 2
    /\ last.value["budget_alerts"][1]["account_id"] = "a2"
    /\ last.value["budget_alerts"][1]["percent_used"] = 8000
    /\ last.value["budget_alerts"][2]["percent_used"] = 8667

\* C25 (specification Spec, a store opened on an absent file): in every
\* state, after construction and after every call that returned or raised,
\* the file exists, is a whole document and has the four top-level keys
\* services, accounts, usage_budgets and recommendations, and no other.
C25_FourKeysOnDisk ==
    /\ file.exists
    /\ IsComplete(file.chunks)
    /\ DOMAIN Doc = {"services", "accounts", "usage_budgets", "recommendations"}

\* A create was rejected for a password key after records of three
\* collections had been stored.
C25_Witness ==
    /\ pc = "returned"
    /\ last.op = "create_recommendation"
    /\ last.status = "ValidationError"
    /\ Len(Doc["services"]) = 1
    /\ Len(Doc["accounts"]) = 1
    /\ Len(Doc["usage_budgets"]) = 1
    /\ DOMAIN Doc = {"services", "accounts", "usage_budgets", "recommendations"}

\* The filter is given: it is neither None nor the empty string.
Given(filter) == filter # NULL /\ filter # ""

\* C29 (specification SpecDash): list_accounts(category, status) returns, in
\* insertion order, exactly the accounts of the document on disk that
\* satisfy every filter given, the status being equal to the status filter
\* and the category of the account's service equal to the category filter;
\* with no filter given it returns all accounts.  list_services(category)
\* returns the services of that category in insertion order, or all
\* services when no category is given.  Neither changes the file.
C29_ListsFilter ==
    /\ Returned("list_accounts") =>
          /\ last.status = "ok"
          /\ file = prev
          /\ last.value =
                SelectSeq(Doc["accounts"],
                   LAMBDA acc :
                      /\ Given(last.status_filter) => acc["status"] = last.status_filter
                      /\ Given(last.category) =>
                            \E s \in DOMAIN Doc["services"] :
                               /\ Doc["services"][s]["id"] = acc["service_id"]
                               /\ Doc["services"][s]["category"] = last.category)
    /\ Returned("list_services") =>
          /\ last.status = "ok"
          /\ file = prev
          /\ last.value =
                SelectSeq(Doc["services"],
                   LAMBDA svc : Given(last.category) => svc["category"] = last.category)

\* Of two accounts at a coding service, a paused one stored before an
\* active one, list_accounts with category coding and status active
\* returned the second only.
C29_Witness ==
    /\ Returned("list_accounts")
    /\ last.category = "coding"
    /\ last.status_filter = "active"
    /\ Len(Doc["accounts"]) = 2
    /\ Doc["accounts"][1]["status"] = "paused"
    /\ Doc["accounts"][1]["service_id"] = Doc["accounts"][2]["service_id"]
    /\ last.value = <<Doc["accounts"][2]>>

Collections == {"services", "accounts", "usage_budgets", "recommendations"}

\* The call that has returned is one the claim excepts for the record: an
\* update or a delete of its id in its collection, or the delete_account
\* of the account that a budget or a recommendation refers to.
Targets(collection, rec) ==
    \/ /\ last.op \in DOMAIN UpdateOps
       /\ UpdateOps[last.op] = collection
       /\ last.id = rec["id"]
    \/ /\ last.op \in DOMAIN DeleteOps
       /\ DeleteOps[last.op] = collection
       /\ last.id = rec["id"]
    \/ /\ last.op = "delete_account"
       /\ collection \in {"usage_budgets", "recommendations"}
       /\ "account_id" \in DOMAIN rec
       /\ rec["account_id"] = last.id

\* C30 (specification Spec): a create_E(payload) that succeeds returns the
\* payload, and get_E(payload.id) on the file it leaves finds a record equal
\* to the payload; every later call, returning or raising, that is not an
\* update or delete of that id, nor the delete_account that cascades to it,
\* leaves get_E of the id with the same record.
C30_CreateIsDurable ==
    /\ (pc = "returned" /\ last.op \in DOMAIN CreateOps /\ last.status = "ok") =>
          /\ last.value = last.payload
          /\ FirstWithId(Doc[CreateOps[last.op]], last.payload["id"]) = last.payload
    /\ pc = "returned" =>
          \A collection \in Collections :
             \A i \in DOMAIN PrevDoc[collection] :
                LET rec == PrevDoc[collection][i]
                IN (/\ FirstWithId(PrevDoc[collection], rec["id"]) = rec
                    /\ ~Targets(collection, rec))
                      => FirstWithId(Doc[collection], rec["id"]) = rec

\* delete_account(a1) removed a1 and its budget b1 from a store with two
\* accounts and their budgets; the budget b2 of a2 is found as it was created.
C30_Witness ==
    /\ Returned("delete_account")
    /\ last.status = "ok"
    /\ last.id = "a1"
    /\ Len(PrevDoc["usage_budgets"]) = 2
    /\ Len(Doc["usage_budgets"]) = 1
    /\ FirstWithId(Doc["usage_budgets"], "b2") = BudgetPayload("b2", "a2")
    /\ FirstWithId(Doc["accounts"], "a2") = AccountPayload("a2", "s1", "active")

\* The position of the record with the id in the collection before the call.
PrevPositionOf(collection, id) ==
    CHOOSE i \in DOMAIN PrevDoc[collection] : PrevDoc[collection][i]["id"] = id

\* C31 (specification SpecMerge): an update_E(id, payload) that succeeds
\* merges the payload into the stored record: every key of the payload has
\* the payload's value, every other key of the stored record keeps its
\* value, the record keeps its position, every other record and every other
\* collection is as before, and the merged record is what the call returns.
C31_UpdateMerges ==
    (pc = "returned" /\ last.op \in DOMAIN UpdateOps /\ last.status = "ok") =>
        LET collection == UpdateOps[last.op]
            i == PrevPositionOf(collection, last.id)
            old == PrevDoc[collection][i]
            new == Doc[collection][i]
        IN /\ Len(Doc[collection]) = Len(PrevDoc[collection])
           /\ DOMAIN new = (DOMAIN old) \cup (DOMAIN last.payload)
           /\ \A key \in DOMAIN last.payload : new[key] = last.payload[key]
           /\ \A key \in (DOMAIN old) \ (DOMAIN last.payload) : new[key] = old[key]
           /\ \A j \in DOMAIN Doc[collection] : j # i => Doc[collection][j] = PrevDoc[collection][j]
           /\ \A other \in (DOMAIN Doc) \ {collection} : Doc[other] = PrevDoc[other]
           /\ DOMAIN Doc = DOMAIN PrevDoc
           /\ last.value = new

\* The first of two accounts, stored with renewal_day 3, was updated with a
\* payload of 22.0 that has no renewal_day: it is still first, costs 22.0
\* and keeps renewal_day 3.
C31_Witness ==
    /\ Returned("update_account")
    /\ last.status = "ok"
    /\ Len(Doc["accounts"]) = 2
    /\ last.id = Doc["accounts"][1]["id"]
    /\ "renewal_day" \notin DOMAIN last.payload
    /\ last.payload["monthly_cost_usd"] = 22000
    /\ "renewal_day" \in DOMAIN Doc["accounts"][1]
    /\ Doc["accounts"][1]["renewal_day"] = 3
    /\ Doc["accounts"][1]["monthly_cost_usd"] = 22000
    /\ PrevDoc["accounts"][1]["monthly_cost_usd"] = 17000

-----------------------------------------------------------------------------
(* Properties of stores opened on files of any origin (specification       *)
(* SpecFiles)                                                              *)

\* C23 (specification SpecFiles): opening a store whose backing file is
\* absent creates the file with the default document, the four collections
\* all empty; opening a store on a file that exists leaves the file as it is.
C23_OpenCreatesOnlyWhenAbsent ==
    Returned("open") =>
        /\ last.status = "ok"
        /\ file.exists
        /\ prev.exists => file = prev
        /\ ~prev.exists =>
              /\ IsComplete(file.chunks)
              /\ DOMAIN Doc = {"services", "accounts", "usage_budgets", "recommendations"}
              /\ \A key \in DOMAIN Doc : Doc[key] = <<>>

\* A store was opened on an absent file, which now holds the default document.
C23_Witness ==
    /\ Returned("open")
    /\ ~prev.exists
    /\ Doc = DEFAULT_DB

ListOps == {"list_services", "list_accounts", "list_budgets", "list_recommendations"}

ReadOnlyOps == (DOMAIN GetOps) \cup ListOps \cup {"get_config", "dashboard_summary"}

\* C24 (specification SpecFiles): get_config, list_E, get_E and
\* dashboard_summary leave the file as it was, whether they return or raise;
\* when the file lacks usage_budgets or recommendations the result takes
\* them as empty lists (get_config returns the document with the missing
\* collections added empty, the lists are empty, the lookups find nothing,
\* no budget alerts) while the file stays without them; a create, update or
\* delete that succeeds writes a document that has them.
C24_ReadsLeaveFile ==
    /\ (pc = "returned" /\ last.op \in ReadOnlyOps) =>
          /\ file = prev
          /\ last.status = "ok" =>
                /\ last.op = "get_config" =>
                      /\ DOMAIN last.value = (DOMAIN Doc) \cup {"usage_budgets", "recommendations"}
                      /\ \A key \in DOMAIN last.value :
                            last.value[key] = IF key \in DOMAIN Doc THEN Doc[key] ELSE <<>>
                /\ "usage_budgets" \notin DOMAIN Doc =>
                      /\ last.op = "list_budgets" => last.value = <<>>
                      /\ last.op = "get_budget" => IsNone(last.value)
                      /\ last.op = "dashboard_summary" => last.value["budget_alerts"] = <<>>
                /\ "recommendations" \notin DOMAIN Doc =>
                      /\ last.op = "list_recommendations" => last.value = <<>>
                      /\ last.op = "get_recommendation" => IsNone(last.value)
    /\ (pc = "returned" /\ last.op \in (DOMAIN CreateOps) \cup (DOMAIN UpdateOps) \cup (DOMAIN DeleteOps)
          /\ last.status = "ok") =>
          {"usage_budgets", "recommendations"} \subseteq DOMAIN Doc

\* get_config returned the document of a file that holds a service and no
\* usage_budgets or recommendations, with the two as empty lists.
C24_Witness ==
    /\ Returned("get_config")
    /\ last.status = "ok"
    /\ DOMAIN Doc = {"services", "accounts"}
    /\ Len(Doc["services"]) = 1
    /\ last.value["usage_budgets"] = <<>>
    /\ last.value["recommendations"] = <<>>
    /\ file = prev

\* C26 as stated (specification SpecFiles): when the file is a document
\* without services or without accounts, every operation that loads it fails
\* with a StorageFormatError, an error of another kind than ValidationError,
\* and the file is left as it was.
C26_MissingKeysRaiseStorageFormatError ==
    (/\ pc = "returned"
     /\ last.op \notin {"open", "none"}
     /\ prev.exists
     /\ IsComplete(prev.chunks)
     /\ {"services", "accounts"} \ (DOMAIN PrevDoc) # {})
        => /\ last.status = "StorageFormatError"
           /\ file = prev

\* C28 as stated (specification SpecFiles): for every document on disk that
\* load accepts, the content on disk after save(load()) equals the content
\* before.
C28_SaveLoadKeepsContent ==
    (Returned("save_load") /\ last.status = "ok") => Doc = PrevDoc

\* C28 (specification SpecFiles): for every document on disk that load
\* accepts, the content on disk after save(load()) is the content before
\* with usage_budgets and recommendations added as empty lists where the
\* document lacked them, so it equals the content before for every document
\* that has the four collections; every record and every other key, in
\* order, is kept; when load rejects the file nothing is written.
C28_SaveLoadKeepsBackfilledContent ==
    Returned("save_load") =>
        IF last.status = "ok"
        THEN /\ DOMAIN Doc = (DOMAIN PrevDoc) \cup {"usage_budgets", "recommendations"}
             /\ \A key \in DOMAIN Doc :
                   Doc[key] = IF key \in DOMAIN PrevDoc THEN PrevDoc[key] ELSE <<>>
             /\ {"usage_budgets", "recommendations"} \subseteq DOMAIN PrevDoc => file = prev
        ELSE file = prev

\* A document with records, the four collections and a key of another
\* origin was loaded and saved, and the file holds what it held.
C28_Witness ==
    /\ Returned("save_load")
    /\ last.status = "ok"
    /\ {"archive", "usage_budgets", "recommendations"} \subseteq DOMAIN PrevDoc
    /\ Len(PrevDoc["recommendations"]) = 1
    /\ Len(PrevDoc["accounts"]) = 1
    /\ file = prev

-----------------------------------------------------------------------------
(* Properties of the whole-document import (specification SpecImport) *)

\* The document with usage_budgets and recommendations empty where it has none.
WithOptional(document) ==
    [key \in (DOMAIN document) \cup {"usage_budgets", "recommendations"} |->
        IF key \in DOMAIN document THEN document[key] ELSE <<>>]

\* C27 (specification SpecImport): replace_config(document) with a document
\* that has services and accounts puts the document, and nothing else, in
\* the file in one write; the get_config, list_recommendations and
\* dashboard_summary that follow return the imported document (its missing
\* optional collections empty), its recommendations and the summary of its
\* accounts and budgets, with nothing of the previous contents; a document
\* without a required collection is rejected and the file stays as it was.
C27_ImportReplacesEverything ==
    Returned("replace_config") =>
        IF {"services", "accounts"} \subseteq DOMAIN last.payload
        THEN LET imported == WithOptional(last.payload)
                 config == get_config(_read(file)).value
                 listed == list_recommendations(_read(file)).value
                 summary == dashboard_summary(_read(file)).value
             IN /\ last.status = "ok"
                /\ Doc = last.payload
                /\ config = imported
                /\ Len(listed) = Len(imported["recommendations"])
                /\ \A i \in DOMAIN listed :
                      \E j \in DOMAIN imported["recommendations"] :
                         listed[i] = imported["recommendations"][j]
                /\ summary["total_monthly_spend_usd"] =
                      Round2(SumCost(SelectSeq(imported["accounts"],
                                               LAMBDA acc : acc["status"] = "active")))
                /\ Len(summary["budget_alerts"]) <= Len(imported["usage_budgets"])
                /\ \A i \in DOMAIN summary["budget_alerts"] :
                      \E j \in DOMAIN imported["accounts"] :
                         imported["accounts"][j]["id"] = summary["budget_alerts"][i]["account_id"]
        ELSE /\ last.status # "ok"
             /\ file = prev

\* The document of the test was imported into a store that held two
\* services and two accounts of its own: the file holds the imported
\* document, with one service and one account.
C27_Witness ==
    /\ Returned("replace_config")
    /\ last.status = "ok"
    /\ Len(PrevDoc["services"]) = 2
    /\ Len(PrevDoc["accounts"]) = 2
    /\ "recommendations" \in DOMAIN Doc
    /\ Len(Doc["services"]) = 1
    /\ Len(Doc["recommendations"]) = 1
    /\ Doc["accounts"][1]["id"] = "a1"

-----------------------------------------------------------------------------
(* Properties of the save (specification SpecWrite) *)

\* C9: whatever a reader finds when it opens self.path during a save is the
\* whole previous document or the whole new one, and self.path keeps its
\* previous content until os.replace.
C9_ReadersSeeWholeDocuments ==
    InWrite =>
        /\ \A c \in seen : IsComplete(c.chunks) /\ (c = prev \/ c = Written(mem))
        /\ BeforeReplace => file = prev

\* The temporary file holds a part of the new document and a reader has
\* opened self.path during this save.
C9_Witness ==
    /\ pc = "w_dump"
    /\ tmp.chunks # <<>>
    /\ Len(tmp.chunks) < Len(Serialize(mem))
    /\ seen # {}
    /\ prev # Written(mem)

\* C10: after a crash before os.replace self.path holds the whole previous
\* document, after a crash behind os.replace the whole new one.
C10_CrashKeepsWholeDocument ==
    crashed =>
        /\ BeforeReplace =>
              /\ file = prev
              /\ file.exists => _read(file).status = "ok"
        /\ pc = "w_done" =>
              /\ file = Written(mem)
              /\ _read(file).status = "ok"
              /\ _read(file).data = mem

\* The process died with a part of the new document in the temporary file.
C10_Witness ==
    /\ crashed
    /\ pc = "w_dump"
    /\ file.exists
    /\ tmp.chunks # <<>>
    /\ Len(tmp.chunks) < Len(Serialize(mem))
    /\ prev # Written(mem)

-----------------------------------------------------------------------------
(* Properties of the threads (specifications SpecThreads, SpecProcesses) *)

\* C11: with all threads on one FileDatabase instance, no thread is reading
\* the backing file or inside the write section (temporary file to
\* os.replace) while another thread is inside the write section.
C11_FileAccessesExclusive ==
    \A t, u \in Threads :
        (t # u /\ thr[u].pc \in WriteSection)
            => thr[t].pc \notin (ReadSection \cup WriteSection)

\* One thread has written a part of its temporary file while the other
\* thread waits for the lock to read.
C11_Witness ==
    \E t, u \in Threads :
        /\ thr[t].pc = "w_dump"
        /\ tmps[TmpName(t)].chunks # <<>>
        /\ thr[u].pc = "r_acquire"
        /\ lock["db1"] = t

\* The file as one public call, run alone from start to end, leaves it.
AfterCall(f, call) ==
    LET r == Apply(call, _read(f))
    IN IF "data" \in DOMAIN r THEN Written(r.data) ELSE f

\* The content of the file when the calls now running or waiting to be
\* joined began.
RoundBase ==
    IF \E t \in Threads : thr[t].pc # "idle"
    THEN thr[CHOOSE t \in Threads : thr[t].pc # "idle"].base
    ELSE file

\* C12: when two threads have run calls concurrently on one instance and
\* both calls returned without error, the file is what running the two calls
\* one after the other, in one of the two orders, leaves.
C12_ConcurrentCallsSerialize ==
    (\A t \in Threads : thr[t].pc = "returned" /\ thr[t].r.status = "ok")
        => \/ file = AfterCall(AfterCall(RoundBase, thr["t1"].call), thr["t2"].call)
           \/ file = AfterCall(AfterCall(RoundBase, thr["t2"].call), thr["t1"].call)

\* C13: with one FileDatabase instance per thread, the backing file always
\* holds a complete document: the one it held before the running calls, or
\* the one a call handed to its save.
C13_FileIsOneWritersDocument ==
    /\ IsComplete(file.chunks)
    /\ \/ file = RoundBase
       \/ \E t \in Threads :
             /\ thr[t].pc \in {"w_release", "returned"}
             /\ "data" \in DOMAIN thr[t].r
             /\ file = Written(thr[t].r.data)

\* The lost update: two create_service calls for different ids have both
\* returned without error and the file lacks the service of one of them.
C13_Witness ==
    \E a, b \in Threads :
        /\ \A t \in {a, b} :
              /\ thr[t].pc = "returned"
              /\ thr[t].r.status = "ok"
              /\ thr[t].call.op = "create_service"
        /\ thr[a].call.id # thr[b].call.id
        /\ ~HasId(Doc["services"], thr[a].call.id)
        /\ HasId(Doc["services"], thr[b].call.id)

\* C32 (specification SpecRace): under every interleaving of the creates,
\* updates and deletes that two threads run on one instance, the file is a
\* whole document in which the ids of each collection are unique, no
\* account has two budgets, every account's service_id is the id of a
\* stored service and every budget's account_id is the id of a stored
\* account.
C32_InterleavingsKeepInvariants ==
    /\ file.exists
    /\ IsComplete(file.chunks)
    /\ \A collection \in Collections :
          \A i, j \in DOMAIN Doc[collection] :
             Doc[collection][i]["id"] = Doc[collection][j]["id"] => i = j
    /\ \A i, j \in DOMAIN Doc["usage_budgets"] :
          Doc["usage_budgets"][i]["account_id"] = Doc["usage_budgets"][j]["account_id"] => i = j
    /\ \A i \in DOMAIN Doc["accounts"] :
          \E s \in DOMAIN Doc["services"] :
             Doc["services"][s]["id"] = Doc["accounts"][i]["service_id"]
    /\ \A i \in DOMAIN Doc["usage_budgets"] :
          \E a \in DOMAIN Doc["accounts"] :
             Doc["accounts"][a]["id"] = Doc["usage_budgets"][i]["account_id"]

\* delete_account(a1) and create_budget(b1 for a1) ran together and both
\* succeeded; the delete was overwritten: the file holds a1 and its budget.
C32_Witness ==
    \E a, b \in Threads :
        /\ thr[a].pc = "returned"
        /\ thr[b].pc = "returned"
        /\ thr[a].call.op = "delete_account"
        /\ thr[a].r.status = "ok"
        /\ thr[b].call.op = "create_budget"
        /\ thr[b].r.status = "ok"
        /\ HasId(Doc["accounts"], "a1")
        /\ HasId(Doc["usage_budgets"], "b1")

\* The lock is held exactly by a thread that is inside a file access, and no
\* thread that is about to acquire the lock holds it.
LockFollowsAccess ==
    /\ (\A t \in Threads : thr[t].pc \notin ReadSection \cup WriteSection)
          => lock["db1"] = NULL
    /\ \A t \in Threads :
          /\ thr[t].pc \in {"r_acquire", "w_acquire"} => lock["db1"] # t
          /\ lock["db1"] = t => thr[t].pc \in ReadSection \cup WriteSection

\* C33 (specification SpecFair): the lock is never held by a thread that
\* goes on to acquire it, it is free whenever no thread is inside a file
\* access, also after a read that failed or a save that failed, and under
\* fair scheduling every call a thread has started returns or raises in the
\* end.
C33_EveryCallFinishes ==
    /\ []LockFollowsAccess
    /\ \A t \in Threads : InFlight(t) ~> (thr[t].pc = "returned")

\* The save of one thread failed and the thread has left its call with the
\* error; the other thread has taken the lock since and is saving.
C33_Witness ==
    \E a, b \in Threads :
        /\ thr[a].pc = "returned"
        /\ thr[a].r.status = "OSError"
        /\ lock["db1"] = b
        /\ thr[b].pc \in WriteSection

====
